---- MODULE Spec2Model ----
(***************************************************************************)
(* A model of the CSS inliner: the CSS parser (internal/css), the cascade  *)
(* resolver (internal/resolver), the DOM adapter (internal/html) and the   *)
(* inlining driver (pkg/inliner).                                          *)
(*                                                                         *)
(* Text (a Go string) is a sequence of one-character strings, so that the  *)
(* regular expressions, the trimming, the splitting and the formatting of  *)
(* the code are modelled character by character.                           *)
(***************************************************************************)
EXTENDS Integers, Sequences, FiniteSets, TLC

----------------------------------------------------------------------------
(* Characters and the string functions of the Go library the code uses.    *)

Lower == <<"a","b","c","d","e","f","g","h","i","j","k","l","m",
           "n","o","p","q","r","s","t","u","v","w","x","y","z">>
Upper == <<"A","B","C","D","E","F","G","H","I","J","K","L","M",
           "N","O","P","Q","R","S","T","U","V","W","X","Y","Z">>
LowerSet == {Lower[i] : i \in DOMAIN Lower}
UpperSet == {Upper[i] : i \in DOMAIN Upper}
Letters == LowerSet \cup UpperSet
Digits == {"0","1","2","3","4","5","6","7","8","9"}
\* [a-zA-Z0-9_-]
NameChars == Letters \cup Digits \cup {"_", "-"}
\* \w, the word characters that \b separates from the others
WordChars == Letters \cup Digits \cup {"_"}
\* unicode.IsSpace on the characters of the model (strings.TrimSpace)
SpaceChars == {" ", "\t", "\n", "\r", "\f"}
\* \s of the regexp package
RegexSpace == {" ", "\t", "\n", "\r", "\f"}

\* The characters of the model in byte order (the order of sort.Strings).
Ascii == <<"\t", "\n", "\f", "\r", " ", "!", "\"", "#", "'", "(", ")", "*", ",",
           "-", ".", "/", "0","1","2","3","4","5","6","7","8","9", ":", ";",
           "A","B","C","D","E","F","G","H","I","J","K","L","M",
           "N","O","P","Q","R","S","T","U","V","W","X","Y","Z", "[", "]", "_",
           "a","b","c","d","e","f","g","h","i","j","k","l","m",
           "n","o","p","q","r","s","t","u","v","w","x","y","z", "{", "}">>
Code(c) == CHOOSE i \in DOMAIN Ascii : Ascii[i] = c

Min(S) == CHOOSE x \in S : \A y \in S : x <= y
Max(S) == CHOOSE x \in S : \A y \in S : x >= y

\* s < t as Go compares strings (bytewise, a proper prefix first)
RECURSIVE StrLess(_, _)
StrLess(s, t) ==
    IF t = <<>> THEN FALSE
    ELSE IF s = <<>> THEN TRUE
    ELSE IF s[1] = t[1] THEN StrLess(Tail(s), Tail(t))
    ELSE Code(s[1]) < Code(t[1])

ToLowerChar(c) ==
    IF c \in UpperSet THEN Lower[CHOOSE i \in DOMAIN Upper : Upper[i] = c] ELSE c
ToLower(s) == [i \in 1..Len(s) |-> ToLowerChar(s[i])]

TrimSpace(s) ==
    LET I == {i \in 1..Len(s) : s[i] \notin SpaceChars}
    IN  IF I = {} THEN <<>> ELSE SubSeq(s, Min(I), Max(I))

\* sub occurs in s at index i
HasAt(s, i, sub) ==
    /\ i >= 1
    /\ i + Len(sub) - 1 <= Len(s)
    /\ \A k \in 1..Len(sub) : s[i + k - 1] = sub[k]
HasPrefix(s, prefix) == HasAt(s, 1, prefix)
Contains(s, sub) == \E i \in 1..(Len(s) + 1) : HasAt(s, i, sub)

\* the first index >= from whose character is in S (not in S); 0 when none
FirstIn(s, from, S) ==
    LET I == {i \in from..Len(s) : s[i] \in S}
    IN  IF I = {} THEN 0 ELSE Min(I)
FirstNotIn(s, from, S) ==
    LET I == {i \in from..Len(s) : s[i] \notin S}
    IN  IF I = {} THEN 0 ELSE Min(I)

\* strings.Join
RECURSIVE Join(_, _)
Join(parts, sep) ==
    IF parts = <<>> THEN <<>>
    ELSE IF Len(parts) = 1 THEN parts[1]
    ELSE parts[1] \o sep \o Join(Tail(parts), sep)

----------------------------------------------------------------------------
(* internal/css: the parser                                                *)

\* removeComments: every /* ... */ is cut out; the comment regexp matches
\* from a slash-star to the first star-slash behind it.
RECURSIVE RemoveCommentsFrom(_, _)
RemoveCommentsFrom(s, pos) ==
    LET closes(i) == {j \in (i + 2)..Len(s) : HasAt(s, j, <<"*", "/">>)}
        opens == {i \in pos..Len(s) : HasAt(s, i, <<"/", "*">>) /\ closes(i) # {}}
    IN  IF opens = {} THEN SubSeq(s, pos, Len(s))
        ELSE LET i == Min(opens)
                 j == Min(closes(i))
             IN  SubSeq(s, pos, i - 1) \o RemoveCommentsFrom(s, j + 2)
removeComments(css) == RemoveCommentsFrom(css, 1)

\* extractAtRules: @(import|charset|namespace)[^;]+; is cut out.
AtStatementWords == { <<"i","m","p","o","r","t">>, <<"c","h","a","r","s","e","t">>,
                      <<"n","a","m","e","s","p","a","c","e">> }
RECURSIVE ExtractAtRulesFrom(_, _)
ExtractAtRulesFrom(s, pos) ==
    LET after(i) == i + 1 + Len(CHOOSE w \in AtStatementWords : HasAt(s, i + 1, w))
        ok(i) == /\ s[i] = "@"
                 /\ \E w \in AtStatementWords : HasAt(s, i + 1, w)
                 /\ after(i) <= Len(s)
                 /\ s[after(i)] # ";"
                 /\ FirstIn(s, after(i), {";"}) # 0
        starts == {i \in pos..Len(s) : ok(i)}
    IN  IF starts = {} THEN SubSeq(s, pos, Len(s))
        ELSE LET i == Min(starts)
                 e == FirstIn(s, after(i), {";"})
             IN  SubSeq(s, pos, i - 1) \o ExtractAtRulesFrom(s, e + 1)
extractAtRules(css) == ExtractAtRulesFrom(css, 1)

\* ruleRegex.FindAllStringSubmatch: ([^{]+)\{([^}]*)\} , leftmost matches that
\* do not overlap. A match starts at the first character that is not "{",
\* its first group runs to the next "{", its second group to the next "}".
RECURSIVE RuleMatchesFrom(_, _)
RuleMatchesFrom(s, pos) ==
    LET st == FirstNotIn(s, pos, {"{"})
        b  == IF st = 0 THEN 0 ELSE FirstIn(s, st, {"{"})
        e  == IF b = 0 THEN 0 ELSE FirstIn(s, b + 1, {"}"})
    IN  IF e = 0 THEN <<>>
        ELSE << <<SubSeq(s, st, b - 1), SubSeq(s, b + 1, e - 1)>> >>
             \o RuleMatchesFrom(s, e + 1)
ruleRegexFindAll(s) == RuleMatchesFrom(s, 1)

\* The loop of smartSplit and of findUnquotedChar over the characters: the
\* positions from i on, the loop outside quotes at i, that it reads as a
\* quote or inside quotes. A quote opens at the next " or ' and closes at the
\* next occurrence of the same character; one that does not close runs to
\* the end.
RECURSIVE QuotedFrom(_, _)
QuotedFrom(s, i) ==
    LET open == FirstIn(s, i, {"\"", "'"})
        close == FirstIn(s, open + 1, {s[open]})
    IN  IF open = 0 THEN {}
        ELSE IF close = 0 THEN open..Len(s)
        ELSE (open..close) \cup QuotedFrom(s, close + 1)

\* smartSplit: split at the delimiter outside quotes, empty pieces dropped
RECURSIVE SmartSplitFrom(_, _, _)
SmartSplitFrom(s, cuts, pos) ==
    IF pos > Len(s) THEN <<>>
    ELSE LET next == IF \E c \in cuts : c >= pos
                     THEN Min({c \in cuts : c >= pos}) ELSE Len(s) + 1
         IN  (IF next > pos THEN << SubSeq(s, pos, next - 1) >> ELSE <<>>)
               \o SmartSplitFrom(s, cuts, next + 1)
smartSplit(s, delimiter) ==
    SmartSplitFrom(s, {i \in DOMAIN s : s[i] = delimiter} \ QuotedFrom(s, 1), 1)

\* findUnquotedChar: the index of the first char outside quotes, 0 for -1
findUnquotedChar(s, char) ==
    LET found == {i \in DOMAIN s : s[i] = char} \ QuotedFrom(s, 1)
    IN  IF found = {} THEN 0 ELSE Min(found)

\* importantRegex: !\s*important\s*$ ; the index where it matches, 0 when
\* it does not. The regexp carries no case-insensitive flag.
ImportantWord == <<"i","m","p","o","r","t","a","n","t">>
importantRegexIndex(value) ==
    LET word(i) == IF FirstNotIn(value, i + 1, RegexSpace) = 0
                   THEN Len(value) + 1
                   ELSE FirstNotIn(value, i + 1, RegexSpace)
        ok(i) == /\ value[i] = "!"
                 /\ HasAt(value, word(i), ImportantWord)
                 /\ FirstNotIn(value, word(i) + Len(ImportantWord), RegexSpace) = 0
        I == {i \in 1..Len(value) : ok(i)}
    IN  IF I = {} THEN 0 ELSE Min(I)

\* One piece of a declaration block: the declaration it yields, or none.
\* A declaration is [Property, Value, Important].
NoDeclaration == [Property |-> <<>>, Value |-> <<>>, Important |-> FALSE, none |-> TRUE]
\* the value with the marker found at idx (0: no marker)
declarationOf(property, value, idx) ==
    [Property |-> ToLower(property),
     Value |-> IF idx # 0 THEN TrimSpace(SubSeq(value, 1, idx - 1)) ELSE value,
     Important |-> idx # 0,
     none |-> FALSE]
propertyValue(property, value) ==
    IF property = <<>> \/ value = <<>> THEN NoDeclaration
    ELSE declarationOf(property, value, importantRegexIndex(value))
splitAtColon(part, colonIndex) ==
    IF colonIndex = 0 THEN NoDeclaration
    ELSE propertyValue(TrimSpace(SubSeq(part, 1, colonIndex - 1)),
                       TrimSpace(SubSeq(part, colonIndex + 1, Len(part))))
trimmedPart(part) ==
    IF part = <<>> THEN NoDeclaration ELSE splitAtColon(part, findUnquotedChar(part, ":"))
parseDeclaration(rawPart) == trimmedPart(TrimSpace(rawPart))

Decl(d) == [Property |-> d.Property, Value |-> d.Value, Important |-> d.Important]

\* the empty map
EmptyMap == [p \in {} |-> 0]
\* (a variant of MapPut in which a key already in the map keeps its value)
MapPutKeepingFirst(m, k, v) == [p \in (DOMAIN m) \cup {k} |-> IF p \in DOMAIN m THEN m[p] ELSE v]
\* m[k] = v added to the map m
MapPut(m, k, v) == [p \in (DOMAIN m) \cup {k} |-> IF p = k THEN v ELSE m[p]]

\* parseDeclarations: the pieces in text order, a later declaration of a
\* property replacing an earlier one
RECURSIVE ParseParts(_, _, _)
ParseParts(parts, i, declarations) ==
    IF i > Len(parts) THEN declarations
    ELSE LET d == parseDeclaration(parts[i])
         IN  ParseParts(parts, i + 1,
                        IF d.none THEN declarations
                        ELSE MapPut(declarations, d.Property, Decl(d)))
parseDeclarations(declarationsText) ==
    ParseParts(smartSplit(declarationsText, ";"), 1, EmptyMap)

ParseInlineStyle(styleAttr) == parseDeclarations(styleAttr)

\* Specificity
Spec4(inline, ids, classes, elements, important) ==
    [Inline |-> inline, IDs |-> ids, Classes |-> classes,
     Elements |-> elements, Important |-> important]

isPseudoClassKeyword(s) ==
    s \in { <<"h","o","v","e","r">>, <<"f","o","c","u","s">>, <<"a","c","t","i","v","e">>,
            <<"v","i","s","i","t","e","d">>, <<"l","i","n","k">>,
            <<"f","i","r","s","t","-","c","h","i","l","d">>,
            <<"l","a","s","t","-","c","h","i","l","d">>,
            <<"n","t","h","-","c","h","i","l","d">>,
            <<"n","t","h","-","o","f","-","t","y","p","e">>, <<"n","o","t">> }
isCSSKeyword(s) ==
    s \in { <<"a","n","d">>, <<"o","r">>, <<"n","o","t">>, <<"o","n","l","y">>,
            <<"a","l","l">>, <<"s","c","r","e","e","n">>, <<"p","r","i","n","t">> }

\* the end of the run of characters of S that starts at i
RunEnd(s, i, S) ==
    LET j == FirstNotIn(s, i, S) IN IF j = 0 THEN Len(s) ELSE j - 1

\* FindAllString of lead[a-zA-Z0-9_-]+ : the matches, as texts, by start
NameMatches(s, lead) ==
    LET starts == {i \in 1..Len(s) : HasAt(s, i, lead)
                                      /\ i + Len(lead) <= Len(s)
                                      /\ s[i + Len(lead)] \in NameChars}
    IN  [i \in starts |-> SubSeq(s, i, RunEnd(s, i + Len(lead), NameChars))]

\* FindAllString of \[[^\]]*\] : the number of matches
RECURSIVE AttrCountFrom(_, _)
AttrCountFrom(s, pos) ==
    LET opens == {i \in pos..Len(s) : s[i] = "[" /\ FirstIn(s, i + 1, {"]"}) # 0}
    IN  IF opens = {} THEN 0
        ELSE 1 + AttrCountFrom(s, FirstIn(s, Min(opens) + 1, {"]"}) + 1)

\* FindAllString of \b[a-zA-Z]+\b : the runs of word characters that hold
\* letters only, as texts, by start
ElementMatches(s) ==
    LET starts == {i \in 1..Len(s) :
                      /\ s[i] \in WordChars
                      /\ (i = 1 \/ s[i - 1] \notin WordChars)
                      /\ \A k \in i..RunEnd(s, i, WordChars) : s[k] \in Letters}
    IN  [i \in starts |-> SubSeq(s, i, RunEnd(s, i, WordChars))]

calculateSpecificity(selector) ==
    LET ids == NameMatches(selector, <<"#">>)
        classes == NameMatches(selector, <<".">>)
        pseudoMatches == NameMatches(selector, <<":">>)
        pseudoElements == NameMatches(selector, <<":", ":">>)
        elementMatches == ElementMatches(selector)
    IN  Spec4(0,
              Cardinality(DOMAIN ids),
              Cardinality(DOMAIN classes) + AttrCountFrom(selector, 1)
                + Cardinality({i \in DOMAIN pseudoMatches :
                                 ~HasPrefix(pseudoMatches[i], <<":", ":">>)}),
              Cardinality(DOMAIN pseudoElements)
                + Cardinality({i \in DOMAIN elementMatches :
                                 /\ ~isPseudoClassKeyword(ToLower(elementMatches[i]))
                                 /\ ~isCSSKeyword(ToLower(elementMatches[i]))}),
              FALSE)

SpecificityFromInline(important) == Spec4(1000, 0, 0, 0, important)

\* Parse: one Rule per match of the rule regexp whose selector and
\* declaration block are not empty; SourceOrder is the index of the match.
RECURSIVE ParseMatches(_, _)
ParseMatches(matches, i) ==
    IF i > Len(matches) THEN <<>>
    ELSE LET selector == TrimSpace(matches[i][1])
             declarations == TrimSpace(matches[i][2])
         IN  (IF selector = <<>> \/ declarations = <<>> THEN <<>>
              ELSE << [Selector |-> selector,
                       Specificity |-> calculateSpecificity(selector),
                       Declarations |-> parseDeclarations(declarations),
                       SourceOrder |-> i - 1] >>)
             \o ParseMatches(matches, i + 1)
Parse(cssText) ==
    ParseMatches(ruleRegexFindAll(extractAtRules(removeComments(cssText))), 1)

\* IsEmailSafeProperty: the allow-list, looked up by the lower-cased name
SafeProperties ==
    { <<"c","o","l","o","r">>,
      <<"f","o","n","t","-","f","a","m","i","l","y">>,
      <<"f","o","n","t","-","s","i","z","e">>,
      <<"f","o","n","t","-","w","e","i","g","h","t">>,
      <<"f","o","n","t","-","s","t","y","l","e">>,
      <<"t","e","x","t","-","a","l","i","g","n">>,
      <<"t","e","x","t","-","d","e","c","o","r","a","t","i","o","n">>,
      <<"l","i","n","e","-","h","e","i","g","h","t">>,
      <<"l","e","t","t","e","r","-","s","p","a","c","i","n","g">>,
      <<"w","i","d","t","h">>,
      <<"h","e","i","g","h","t">>,
      <<"p","a","d","d","i","n","g">>,
      <<"p","a","d","d","i","n","g","-","t","o","p">>,
      <<"p","a","d","d","i","n","g","-","r","i","g","h","t">>,
      <<"p","a","d","d","i","n","g","-","b","o","t","t","o","m">>,
      <<"p","a","d","d","i","n","g","-","l","e","f","t">>,
      <<"m","a","r","g","i","n">>,
      <<"m","a","r","g","i","n","-","t","o","p">>,
      <<"m","a","r","g","i","n","-","r","i","g","h","t">>,
      <<"m","a","r","g","i","n","-","b","o","t","t","o","m">>,
      <<"m","a","r","g","i","n","-","l","e","f","t">>,
      <<"b","a","c","k","g","r","o","u","n","d">>,
      <<"b","a","c","k","g","r","o","u","n","d","-","c","o","l","o","r">>,
      <<"b","a","c","k","g","r","o","u","n","d","-","i","m","a","g","e">>,
      <<"b","o","r","d","e","r">>,
      <<"b","o","r","d","e","r","-","t","o","p">>,
      <<"b","o","r","d","e","r","-","r","i","g","h","t">>,
      <<"b","o","r","d","e","r","-","b","o","t","t","o","m">>,
      <<"b","o","r","d","e","r","-","l","e","f","t">>,
      <<"b","o","r","d","e","r","-","c","o","l","o","r">>,
      <<"b","o","r","d","e","r","-","s","t","y","l","e">>,
      <<"b","o","r","d","e","r","-","w","i","d","t","h">>,
      <<"b","o","r","d","e","r","-","c","o","l","l","a","p","s","e">>,
      <<"b","o","r","d","e","r","-","s","p","a","c","i","n","g">>,
      <<"v","e","r","t","i","c","a","l","-","a","l","i","g","n">> }
IsEmailSafeProperty(property) == ToLower(property) \in SafeProperties

----------------------------------------------------------------------------
(* internal/css: Specificity.Compare                                       *)

\* Compare without the Inline component: the comparison a stylesheet rule
\* and a style attribute would get if only selectors counted
CompareIgnoringInline(s, other) ==
    IF s.Important /\ ~other.Important THEN 1
    ELSE IF ~s.Important /\ other.Important THEN -1
    ELSE IF s.IDs # other.IDs THEN (IF s.IDs > other.IDs THEN 1 ELSE -1)
    ELSE IF s.Classes # other.Classes THEN (IF s.Classes > other.Classes THEN 1 ELSE -1)
    ELSE IF s.Elements # other.Elements THEN (IF s.Elements > other.Elements THEN 1 ELSE -1)
    ELSE 0

\* 1 if s > other, -1 if s < other, 0 if equal
Compare(s, other) ==
    IF s.Important /\ ~other.Important THEN 1
    ELSE IF ~s.Important /\ other.Important THEN -1
    ELSE IF s.Inline # other.Inline THEN (IF s.Inline > other.Inline THEN 1 ELSE -1)
    ELSE IF s.IDs # other.IDs THEN (IF s.IDs > other.IDs THEN 1 ELSE -1)
    ELSE IF s.Classes # other.Classes THEN (IF s.Classes > other.Classes THEN 1 ELSE -1)
    ELSE IF s.Elements # other.Elements THEN (IF s.Elements > other.Elements THEN 1 ELSE -1)
    ELSE 0

----------------------------------------------------------------------------
(* internal/config                                                         *)

Outlook == <<"o","u","t","l","o","o","k">>
Gmail   == <<"g","m","a","i","l">>
Generic == <<"g","e","n","e","r","i","c">>

GetCompatibilityProfile(client) ==
    LET c == ToLower(client)
    IN  IF c \in {Outlook, Outlook \o <<"_","d","e","s","k","t","o","p">>}
        THEN [SupportsMediaQueries |-> FALSE, RequiresInlineStyles |-> TRUE,
              MaxStylesheetSize |-> 65536]
        ELSE IF c \in {Gmail, Gmail \o <<"_","w","e","b">>}
        THEN [SupportsMediaQueries |-> TRUE, RequiresInlineStyles |-> FALSE,
              MaxStylesheetSize |-> 0]
        ELSE IF c \in {<<"a","p","p","l","e","_","m","a","i","l">>,
                       <<"m","a","i","l","_","a","p","p">>}
        THEN [SupportsMediaQueries |-> TRUE, RequiresInlineStyles |-> FALSE,
              MaxStylesheetSize |-> 0]
        ELSE IF c \in {Outlook \o <<"_","o","n","l","i","n","e">>,
                       Outlook \o <<"_","w","e","b">>}
        THEN [SupportsMediaQueries |-> TRUE, RequiresInlineStyles |-> TRUE,
              MaxStylesheetSize |-> 65536]
        ELSE [SupportsMediaQueries |-> FALSE, RequiresInlineStyles |-> TRUE,
              MaxStylesheetSize |-> 32768]

----------------------------------------------------------------------------
(* internal/html: the DOM adapter. A node is                               *)
(*   [tag, id, classes, hasStyle, style, text]                             *)
(* tag, id, style, text are texts, classes a set of texts.                 *)

\* GetInlineStyle: the style attribute parsed as a declaration block, the
\* empty map when the attribute is missing or empty
GetInlineStyle(node) ==
    IF ~node.hasStyle \/ node.style = <<>> THEN EmptyMap
    ELSE ParseInlineStyle(node.style)

\* The sequences that list every element of S once: the orders in which a
\* range loop may visit the keys of a Go map.
Orders(S) ==
    {o \in [1..Cardinality(S) -> S] : \A i, j \in 1..Cardinality(S) : o[i] = o[j] => i = j}

\* "property: value[ !important]"
formatDeclaration(declaration) ==
    declaration.Property \o <<":", " ">> \o declaration.Value
      \o (IF declaration.Important
          THEN <<" ", "!">> \o ImportantWord
          ELSE <<>>)

\* formatStyleString: the declarations in the order the map is ranged over
formatStyleString(styles, order) ==
    IF DOMAIN styles = {} THEN <<>>
    ELSE Join([i \in 1..Len(order) |-> formatDeclaration(styles[order[i]])], <<";", " ">>)

\* SetInlineStyle: the style attribute is set to the formatted declarations
SetInlineStyle(node, styles, order) ==
    [node EXCEPT !.hasStyle = TRUE, !.style = formatStyleString(styles, order)]

\* Matches: selection.Is(selector) of the selector library, for compound
\* selectors  [tag | *] ( #id | .class )* ; any other text is no selector the
\* library compiles (or none the documents of the model can match), and Is
\* answers false.
RECURSIVE MatchesFrom(_, _, _)
MatchesFrom(node, sel, i) ==
    IF i > Len(sel) THEN TRUE
    ELSE IF sel[i] \in {"#", "."} /\ i + 1 <= Len(sel) /\ sel[i + 1] \in NameChars
    THEN LET e == RunEnd(sel, i + 1, NameChars)
             name == SubSeq(sel, i + 1, e)
         IN  /\ IF sel[i] = "#" THEN node.id = name ELSE name \in node.classes
             /\ MatchesFrom(node, sel, e + 1)
    ELSE FALSE
Matches(node, sel) ==
    IF sel = <<>> THEN FALSE
    ELSE IF sel[1] = "*" THEN MatchesFrom(node, sel, 2)
    ELSE IF sel[1] \in Letters
    THEN LET e == RunEnd(sel, 1, NameChars)
         IN  ToLower(SubSeq(sel, 1, e)) = node.tag /\ MatchesFrom(node, sel, e + 1)
    ELSE MatchesFrom(node, sel, 1)

\* IsPseudoSelector
IsPseudoSelector(selector) ==
    /\ Contains(selector, <<":">>)
    /\ \/ Contains(selector, <<":","h","o","v","e","r">>)
       \/ Contains(selector, <<":","f","o","c","u","s">>)
       \/ Contains(selector, <<":","a","c","t","i","v","e">>)
       \/ Contains(selector, <<":","v","i","s","i","t","e","d">>)
       \/ Contains(selector, <<":",":","b","e","f","o","r","e">>)
       \/ Contains(selector, <<":",":","a","f","t","e","r">>)

----------------------------------------------------------------------------
(* internal/resolver                                                       *)

\* findMatchingRules: the rules whose selector matches, in stylesheet order.
\* MatchResult.Rule is the address of the range loop's variable: with a
\* variable per iteration (Go 1.22 on) it holds the matching rule, with one
\* variable for the whole loop it holds, once the loop has ended, the last
\* rule of the stylesheet. sharedLoopVar chooses the build.
RECURSIVE MatchingFrom(_, _, _, _)
MatchingFrom(node, rules, i, sharedLoopVar) ==
    IF i > Len(rules) THEN <<>>
    ELSE (IF Matches(node, rules[i].Selector)
          THEN << [Rule |-> IF sharedLoopVar THEN rules[Len(rules)] ELSE rules[i],
                   Specificity |-> rules[i].Specificity,
                   Declarations |-> rules[i].Declarations] >>
          ELSE <<>>)
         \o MatchingFrom(node, rules, i + 1, sharedLoopVar)
findMatchingRules(node, rules, sharedLoopVar) == MatchingFrom(node, rules, 1, sharedLoopVar)

\* cascadeEntry and its zero value, which a missing key of winningSpecs reads as
CascadeEntry(specificity, sourceOrder, important, isInline) ==
    [specificity |-> specificity, sourceOrder |-> sourceOrder,
     important |-> important, isInline |-> isInline]
ZeroEntry == CascadeEntry(Spec4(0, 0, 0, 0, FALSE), 0, FALSE, FALSE)
EntryOf(winningSpecs, property) ==
    IF property \in DOMAIN winningSpecs THEN winningSpecs[property] ELSE ZeroEntry

shouldReplace(newEntry, existingEntry) ==
    IF /\ existingEntry.specificity.Inline = 0 /\ existingEntry.specificity.IDs = 0
       /\ existingEntry.specificity.Classes = 0 /\ existingEntry.specificity.Elements = 0
    THEN TRUE
    ELSE IF newEntry.important /\ ~existingEntry.important THEN TRUE
    ELSE IF ~newEntry.important /\ existingEntry.important THEN FALSE
    ELSE IF Compare(newEntry.specificity, existingEntry.specificity) > 0 THEN TRUE
    ELSE IF Compare(newEntry.specificity, existingEntry.specificity) < 0 THEN FALSE
    ELSE newEntry.sourceOrder >= existingEntry.sourceOrder

\* The cascade state is [decls, specs]: winningDeclarations and winningSpecs.
\* One declaration enters the cascade.
CascadeStep(w, property, declaration, entry) ==
    IF shouldReplace(entry, EntryOf(w.specs, property))
    THEN [decls |-> MapPut(w.decls, property, declaration),
          specs |-> MapPut(w.specs, property, entry)]
    ELSE w

InlineSourceOrder == 999999

\* The declarations of one matching rule enter the cascade. Each property is
\* decided on its own, so the order of the range over the map does not matter.
RECURSIVE CascadeRule(_, _, _)
CascadeRule(w, match, todo) ==
    IF todo = {} THEN w
    ELSE LET property == CHOOSE p \in todo : TRUE
             declaration == match.Declarations[property]
             entry == CascadeEntry(match.Specificity, match.Rule.SourceOrder,
                                   declaration.Important, FALSE)
         IN  CascadeRule(CascadeStep(w, property, declaration, entry),
                         match, todo \ {property})

RECURSIVE CascadeMatches(_, _, _)
CascadeMatches(w, matches, i) ==
    IF i > Len(matches) THEN w
    ELSE CascadeMatches(CascadeRule(w, matches[i], DOMAIN matches[i].Declarations),
                        matches, i + 1)

\* The declarations of the style attribute enter the cascade.
RECURSIVE CascadeInline(_, _, _)
CascadeInline(w, inlineStyles, todo) ==
    IF todo = {} THEN w
    ELSE LET property == CHOOSE p \in todo : TRUE
             declaration == inlineStyles[property]
             entry == CascadeEntry(SpecificityFromInline(declaration.Important),
                                   InlineSourceOrder, declaration.Important, TRUE)
         IN  CascadeInline(CascadeStep(w, property, declaration, entry),
                           inlineStyles, todo \ {property})

\* the cascade of the stylesheet matches alone, the style attribute left out
applyCascadeOfMatches(matches, inlineStyles) ==
    CascadeMatches([decls |-> EmptyMap, specs |-> EmptyMap], matches, 1)

\* applyCascade: the stylesheet matches first, the inline styles after them
applyCascade(matches, inlineStyles) ==
    CascadeInline(CascadeMatches([decls |-> EmptyMap, specs |-> EmptyMap], matches, 1),
                  inlineStyles, DOMAIN inlineStyles)

Restrict(m, keys) == [p \in keys |-> m[p]]

Position == <<"p","o","s","i","t","i","o","n">>
Float    == <<"f","l","o","a","t">>
Display  == <<"d","i","s","p","l","a","y">>

\* (a variant of keepsProperty in which float is kept for every client)
keepsPropertyAndFloat(cfg, property, declaration) ==
    IF IsEmailSafeProperty(property) \/ property = Float THEN TRUE
    ELSE IF property = Display
         THEN declaration.Value \in { <<"b","l","o","c","k">>, <<"i","n","l","i","n","e">>,
                                      <<"t","a","b","l","e">>,
                                      <<"t","a","b","l","e","-","c","e","l","l">> }
    ELSE ~GetCompatibilityProfile(cfg.TargetEmailClient).RequiresInlineStyles

\* filterEmailSafeStyles
keepsProperty(cfg, property, declaration) ==
    IF IsEmailSafeProperty(property) THEN TRUE
    ELSE IF property = Position
         THEN ~GetCompatibilityProfile(cfg.TargetEmailClient).RequiresInlineStyles
    ELSE IF property = Float THEN cfg.TargetEmailClient # Outlook
    ELSE IF property = Display
         THEN declaration.Value \in { <<"b","l","o","c","k">>, <<"i","n","l","i","n","e">>,
                                      <<"t","a","b","l","e">>,
                                      <<"t","a","b","l","e","-","c","e","l","l">> }
    ELSE ~GetCompatibilityProfile(cfg.TargetEmailClient).RequiresInlineStyles
filterEmailSafeStyles(cfg, styles) ==
    IF ~cfg.EmailClientOptimizations THEN styles
    ELSE Restrict(styles, {p \in DOMAIN styles : keepsProperty(cfg, p, styles[p])})

\* ResolveStyles, with the cascade state it went through:
\*   [matchingRules, inlineStyles, winningDeclarations, winningSpecs, finalStyles]
resolved(cfg, matchingRules, inlineStyles, w) ==
    [matchingRules |-> matchingRules,
     inlineStyles |-> inlineStyles,
     winningDeclarations |-> w.decls,
     winningSpecs |-> w.specs,
     finalStyles |-> IF cfg.EmailClientOptimizations
                     THEN filterEmailSafeStyles(cfg, w.decls)
                     ELSE w.decls]
cascaded(cfg, matchingRules, inlineStyles) ==
    resolved(cfg, matchingRules, inlineStyles, applyCascade(matchingRules, inlineStyles))
ResolveStyles(cfg, rules, node, sharedLoopVar) ==
    cascaded(cfg, findMatchingRules(node, rules, sharedLoopVar), GetInlineStyle(node))

\* a merge in which the new declaration always replaces the existing one
alwaysReplaceDeclaration(existing, new) == TRUE

\* a merge that deletes the key when the existing declaration is not replaced
MergeStylesDeletingKept(existing, newStyles) ==
    [p \in {q \in DOMAIN existing \cup DOMAIN newStyles :
                q \in DOMAIN existing \cap DOMAIN newStyles
                    => ~(existing[q].Important /\ ~newStyles[q].Important)} |->
        IF p \in DOMAIN newStyles THEN newStyles[p] ELSE existing[p]]

shouldReplaceDeclaration(existing, new) ==
    IF new.Important /\ ~existing.Important THEN TRUE
    ELSE IF ~new.Important /\ existing.Important THEN FALSE
    ELSE TRUE

\* MergeStyles: each property is decided on its own
MergeStyles(existing, newStyles) ==
    [p \in (DOMAIN existing) \cup (DOMAIN newStyles) |->
        IF p \notin DOMAIN newStyles THEN existing[p]
        ELSE IF p \notin DOMAIN existing THEN newStyles[p]
        ELSE IF shouldReplaceDeclaration(existing[p], newStyles[p]) THEN newStyles[p]
        ELSE existing[p]]

\* sort.Strings on the keys of a map
SortedKeys(styles) ==
    CHOOSE o \in Orders(DOMAIN styles) :
        \A i \in 1..(Len(o) - 1) : StrLess(o[i], o[i + 1])

\* StylesString: the declarations sorted by property
StylesString(styles) ==
    IF DOMAIN styles = {} THEN <<>>
    ELSE LET properties == SortedKeys(styles)
         IN  Join([i \in 1..Len(properties) |-> formatDeclaration(styles[properties[i]])],
                  <<";", " ">>)

\* ValidateStyles: the warnings of one declaration, and of a map in the
\* order the map is ranged over
Warning(property, value, message, severity) ==
    [Property |-> property, Value |-> value, Message |-> message, Severity |-> severity]
declarationWarnings(cfg, property, declaration) ==
    (IF /\ property = <<"b","a","c","k","g","r","o","u","n","d","-","i","m","a","g","e">>
        /\ Contains(declaration.Value, <<"u","r","l","(">>)
        /\ cfg.TargetEmailClient = Outlook
     THEN << Warning(property, declaration.Value,
                     "Background images may not render in Outlook desktop", "warning") >>
     ELSE IF /\ property \in { <<"w","i","d","t","h">>, <<"h","e","i","g","h","t">> }
             /\ \/ Contains(declaration.Value, <<"v","w">>)
                \/ Contains(declaration.Value, <<"v","h">>)
     THEN << Warning(property, declaration.Value,
                     "Viewport units not supported in email clients", "error") >>
     ELSE IF /\ property = Position
             /\ declaration.Value # <<"s","t","a","t","i","c">>
             /\ GetCompatibilityProfile(cfg.TargetEmailClient).RequiresInlineStyles
     THEN << Warning(property, declaration.Value,
                     "Positioning not supported in this email client", "warning") >>
     ELSE <<>>)
    \o
    (IF ~IsEmailSafeProperty(property)
     THEN << Warning(property, declaration.Value,
                     "Property may not be supported across all email clients", "info") >>
     ELSE <<>>)
RECURSIVE ValidateFrom(_, _, _, _)
ValidateFrom(cfg, styles, order, i) ==
    IF i > Len(order) THEN <<>>
    ELSE declarationWarnings(cfg, order[i], styles[order[i]])
         \o ValidateFrom(cfg, styles, order, i + 1)
ValidateStyles(cfg, styles, order) == ValidateFrom(cfg, styles, order, 1)

----------------------------------------------------------------------------
(* pkg/inliner: the inlining driver                                        *)

StyleTag == <<"s","t","y","l","e">>

\* (a variant of shouldSkipElement in which html is not skipped)
shouldSkipElementButHtml(tagName) ==
    tagName \in { <<"h","e","a","d">>, <<"t","i","t","l","e">>,
                  <<"m","e","t","a">>, <<"l","i","n","k">>, <<"s","c","r","i","p","t">>,
                  <<"s","t","y","l","e">>, <<"n","o","s","c","r","i","p","t">>,
                  <<"b","a","s","e">> }

shouldSkipElement(tagName) ==
    tagName \in { <<"h","t","m","l">>, <<"h","e","a","d">>, <<"t","i","t","l","e">>,
                  <<"m","e","t","a">>, <<"l","i","n","k">>, <<"s","c","r","i","p","t">>,
                  StyleTag, <<"n","o","s","c","r","i","p","t">>, <<"b","a","s","e">> }

\* GetStyleTags: the indexes of the <style> elements, in document order
RECURSIVE StyleTagsFrom(_, _)
StyleTagsFrom(doc, i) ==
    IF i > Len(doc) THEN <<>>
    ELSE (IF doc[i].tag = StyleTag THEN <<i>> ELSE <<>>) \o StyleTagsFrom(doc, i + 1)
GetStyleTags(doc) == StyleTagsFrom(doc, 1)

\* extractCSS: the text of every <style> tag that has one, each followed by
\* a newline
RECURSIVE ExtractFrom(_, _, _)
ExtractFrom(doc, styleTags, i) ==
    IF i > Len(styleTags) THEN <<>>
    ELSE (IF doc[styleTags[i]].text # <<>> THEN doc[styleTags[i]].text \o <<"\n">> ELSE <<>>)
         \o ExtractFrom(doc, styleTags, i + 1)
extractCSS(doc) == ExtractFrom(doc, GetStyleTags(doc), 1)

AtMedia == <<"@","m","e","d","i","a">>
isMediaQueryRule(selector) == Contains(selector, AtMedia)
isUninlinableRule(selector) ==
    \/ Contains(selector, <<"@","k","e","y","f","r","a","m","e","s">>)
    \/ Contains(selector, <<"@","f","o","n","t","-","f","a","c","e">>)
    \/ Contains(selector, <<"@","i","m","p","o","r","t">>)
    \/ Contains(selector, <<"@","c","h","a","r","s","e","t">>)

\* formatCSSRule: "selector {\n  prop: value;\n  prop: value;\n}", the
\* declarations in the order the map is ranged over
formatCSSRule(rule, order) ==
    rule.Selector \o <<" ", "{", "\n">>
      \o Join([i \in 1..Len(order) |->
                  <<" ", " ">> \o formatDeclaration(rule.Declarations[order[i]])],
              <<";", "\n">>)
      \o <<";", "\n", "}">>

\* (a variant of shouldPreserve that keeps pseudo selectors whatever the flag)
shouldPreservePseudo(cfg, rule) ==
    \/ cfg.PreserveMediaQueries /\ isMediaQueryRule(rule.Selector)
    \/ IsPseudoSelector(rule.Selector)
    \/ isUninlinableRule(rule.Selector)
shouldPreserve(cfg, rule) ==
    \/ cfg.PreserveMediaQueries /\ isMediaQueryRule(rule.Selector)
    \/ cfg.PreservePseudoSelectors /\ IsPseudoSelector(rule.Selector)
    \/ isUninlinableRule(rule.Selector)

\* buildPreservedCSS: the texts it may return, one for each order in which
\* the declarations of the preserved rules may be ranged over
RECURSIVE PreservedRuleTexts(_, _, _)
PreservedRuleTexts(cfg, rules, i) ==
    IF i > Len(rules) THEN { <<>> }
    ELSE LET rest == PreservedRuleTexts(cfg, rules, i + 1)
         IN  IF shouldPreserve(cfg, rules[i])
             THEN { <<formatCSSRule(rules[i], o)>> \o r :
                       o \in Orders(DOMAIN rules[i].Declarations), r \in rest }
             ELSE rest
buildPreservedCSS(cfg, rules) ==
    { Join(texts, <<"\n">>) : texts \in PreservedRuleTexts(cfg, rules, 1) }

\* Node.Remove on a set of nodes: the document without them
RECURSIVE RemoveNodes(_, _, _)
RemoveNodes(doc, gone, i) ==
    IF i > Len(doc) THEN <<>>
    ELSE (IF i \in gone THEN <<>> ELSE <<doc[i]>>) \o RemoveNodes(doc, gone, i + 1)
\* Node.SetText
SetText(node, content) == [node EXCEPT !.text = content]

\* (a variant of handleStyleTags that leaves the <style> tags behind the first)
handleStyleTagsFirstOnly(cfg, doc, preservedCSS) ==
    LET styleTags == GetStyleTags(doc)
        all == {styleTags[i] : i \in 1..Len(styleTags)}
    IN  IF cfg.RemoveStyleTags \/ preservedCSS = <<>> THEN RemoveNodes(doc, all, 1)
        ELSE IF Len(styleTags) > 0
        THEN [doc EXCEPT ![styleTags[1]] = SetText(@, preservedCSS)]
        ELSE doc

\* handleStyleTags: the document it leaves, given the preserved CSS text
handleStyleTags(cfg, doc, preservedCSS) ==
    LET styleTags == GetStyleTags(doc)
        all == {styleTags[i] : i \in 1..Len(styleTags)}
    IN  IF cfg.RemoveStyleTags THEN RemoveNodes(doc, all, 1)
        ELSE IF preservedCSS # <<>>
        THEN IF Len(styleTags) > 0
             THEN RemoveNodes([doc EXCEPT ![styleTags[1]] = SetText(@, preservedCSS)],
                              all \ {styleTags[1]}, 1)
             ELSE doc
        ELSE RemoveNodes(doc, all, 1)

----------------------------------------------------------------------------
(* The documents and configurations the model runs the inliner on.         *)

\* the rules stylesheets are written from
\* *{color:red !important}
RuleStarImportant ==
    <<"*","{","c","o","l","o","r",":","r","e","d"," ","!","i","m","p","o","r","t","a","n","t","}">>
\* p{color:blue;width:1px}
RulePBlueWidth ==
    <<"p","{","c","o","l","o","r",":","b","l","u","e",";","w","i","d","t","h",":","1","p","x","}">>
\* .x{float:left;color:red}
RuleXFloat ==
    <<".","x","{","f","l","o","a","t",":","l","e","f","t",";","c","o","l","o","r",":","r","e","d","}">>
\* #i{color:blue !important}
RuleIdImportant ==
    <<"#","i","{","c","o","l","o","r",":","b","l","u","e"," ","!","i","m","p","o","r","t","a","n","t","}">>
\* @media (max-width:600px){p{color:red}}
RuleMedia ==
    <<"@","m","e","d","i","a"," ","(","m","a","x","-","w","i","d","t","h",":","6","0","0","p","x",")","{","p","{","c","o","l","o","r",":","r","e","d","}","}">>
\* p{font-size:14px}
RulePFontSize ==
    <<"p","{","f","o","n","t","-","s","i","z","e",":","1","4","p","x","}">>
RulePool ==
    << RuleStarImportant, RulePBlueWidth, RuleXFloat, RuleIdImportant, RuleMedia, RulePFontSize >>

\* the most rules a stylesheet of the model has
MaxRules == 2

\* the stylesheet texts: up to MaxRules rules of the pool, a space between them
StylesheetTexts ==
    UNION { { Join([i \in 1..n |-> RulePool[pick[i]]], <<" ">>) :
                pick \in [1..n -> DOMAIN RulePool] } : n \in 0..MaxRules }

Node(tag, id, classes, hasStyle, style, text) ==
    [tag |-> tag, id |-> id, classes |-> classes,
     hasStyle |-> hasStyle, style |-> style, text |-> text]

\* the elements the body of a document may hold:
\*   <p>, <p id="i" class="a" style="color:green">,
\*   <p id="i" style="color:green !important">, <div class="x">
ElementPool ==
    { Node(<<"p">>, <<>>, {}, FALSE, <<>>, <<>>),
      Node(<<"p">>, <<"i">>, { <<"a">> }, TRUE,
           <<"c","o","l","o","r",":","g","r","e","e","n">>, <<>>),
      Node(<<"p">>, <<"i">>, {}, TRUE,
           <<"c","o","l","o","r",":","g","r","e","e","n"," ","!","i","m","p","o","r","t","a","n","t">>,
           <<>>),
      Node(<<"d","i","v">>, <<>>, { <<"x">> }, FALSE, <<>>, <<>>) }

\* <html><head><style>css</style></head><body>element</body></html>, as the
\* elements QuerySelectorAll("*") lists in document order
Document(css, element) ==
    << Node(<<"h","t","m","l">>, <<>>, {}, FALSE, <<>>, <<>>),
       Node(<<"h","e","a","d">>, <<>>, {}, FALSE, <<>>, <<>>),
       Node(StyleTag, <<>>, {}, FALSE, <<>>, css),
       Node(<<"b","o","d","y">>, <<>>, {}, FALSE, <<>>, <<>>),
       element >>

Config(target, optimizations, preserve, remove) ==
    [TargetEmailClient |-> target, EmailClientOptimizations |-> optimizations,
     PreserveMediaQueries |-> preserve, PreservePseudoSelectors |-> preserve,
     RemoveStyleTags |-> remove]
ConfigPool ==
    { Config(Outlook, TRUE, TRUE, FALSE),
      Config(Gmail, FALSE, TRUE, FALSE),
      Config(Generic, TRUE, FALSE, TRUE) }

----------------------------------------------------------------------------
(* One invocation of Inline after the other, the second on the document    *)
(* the first returned.                                                     *)

VARIABLES
    config,         \* the Config of the Inliner
    htmlContent,    \* the document Inline was called with
    sharedLoopVar,  \* the build: TRUE when a range loop has one variable
    doc,            \* the document: its elements in document order
    pc,             \* where Inline stands: start, process, tags, serialize, done
    stylesheet,     \* the parsed stylesheet: a sequence of Rules
    idx,            \* processDocument: the index of the next element
    result,         \* the InlineResult
    frame,          \* the locals of the last call of processElement
    pass,           \* "first" or "second" invocation
    firstHTML,      \* the document the first invocation returned
    call,           \* a call of one function of the packages on its own
    failed          \* the calls of the html package that returned an error

vars == <<config, htmlContent, sharedLoopVar, doc, pc, stylesheet, idx, result, frame, pass,
          firstHTML, call, failed>>

NoFrame == [stage |-> "none"]
NoCall == [op |-> "none"]
NoResult == [HTML |-> <<>>, InlinedStyles |-> 0, PreservedRules |-> 0,
             Warnings |-> <<>>, HTMLElementsProcessed |-> 0]

Init ==
    /\ config \in ConfigPool
    /\ sharedLoopVar \in BOOLEAN
    /\ htmlContent \in { Document(css, element) :
                            css \in StylesheetTexts, element \in ElementPool }
    /\ doc = htmlContent
    /\ pc = "start"
    /\ stylesheet = <<>>
    /\ idx = 0
    /\ result = NoResult
    /\ frame = NoFrame
    /\ pass = "first"
    /\ firstHTML = <<>>
    /\ failed = {}
    /\ call = NoCall

\* Inline, up to the loop of processDocument: the CSS of the <style> tags is
\* extracted and parsed, the result is created, the elements are listed.
ParseDocument ==
    /\ pc = "start"
    /\ stylesheet' = Parse(extractCSS(doc))
    /\ result' = [NoResult EXCEPT !.HTMLElementsProcessed = Len(doc)]
    /\ idx' = 1
    /\ frame' = NoFrame
    /\ pc' = "process"
    /\ UNCHANGED <<config, htmlContent, sharedLoopVar, doc, pass, firstHTML, call, failed>>

\* processElement: the outcomes of one call, each
\*   [element, warnings, inlined, frame]
\* the element as the call leaves it, the warnings it appends, the number it
\* adds to InlinedStyles, and its locals. styleOrder and warnOrder are the
\* orders in which SetInlineStyle and ValidateStyles range over the map.
elementWritten(cfg, element, res, existingStyles, finalStyles, styleOrder, warnings) ==
    [element |-> SetInlineStyle(element, finalStyles, styleOrder),
     warnings |-> warnings,
     inlined |-> Cardinality(DOMAIN finalStyles),
     frame |-> [stage |-> "written", element |-> element, resolved |-> res,
                existingStyles |-> existingStyles, finalStyles |-> finalStyles,
                warnings |-> warnings]]
stylesMerged(cfg, element, res, existingStyles, finalStyles) ==
    { elementWritten(cfg, element, res, existingStyles, finalStyles, styleOrder,
              ValidateStyles(cfg, finalStyles, warnOrder)) :
        styleOrder \in Orders(DOMAIN finalStyles), warnOrder \in Orders(DOMAIN finalStyles) }
existingRead(cfg, element, res, existingStyles) ==
    stylesMerged(cfg, element, res, existingStyles, MergeStyles(existingStyles, res.finalStyles))
stylesComputed(cfg, element, res) ==
    IF DOMAIN res.finalStyles = {}
    THEN { [element |-> element, warnings |-> <<>>, inlined |-> 0,
            frame |-> [stage |-> "empty", element |-> element, resolved |-> res]] }
    ELSE existingRead(cfg, element, res, GetInlineStyle(element))
processElement(cfg, rules, element, shared) ==
    IF shouldSkipElement(ToLower(element.tag))
    THEN { [element |-> element, warnings |-> <<>>, inlined |-> 0,
            frame |-> [stage |-> "skipped", element |-> element]] }
    ELSE stylesComputed(cfg, element, ResolveStyles(cfg, rules, element, shared))

\* processElement on the next element of the loop of processDocument
ProcessElement ==
    /\ pc = "process"
    /\ idx <= Len(doc)
    /\ idx' = idx + 1
    /\ \E out \in processElement(config, stylesheet, doc[idx], sharedLoopVar) :
          /\ doc' = [doc EXCEPT ![idx] = out.element]
          /\ result' = [result EXCEPT !.Warnings = @ \o out.warnings,
                                      !.InlinedStyles = @ + out.inlined]
          /\ frame' = out.frame
    /\ UNCHANGED <<config, htmlContent, sharedLoopVar, pc, stylesheet, pass, firstHTML, call, failed>>

\* processDocument returns; handleStyleTags removes the <style> tags or
\* keeps the first one for the preserved CSS
HandleStyleTags ==
    /\ pc = "process"
    /\ idx > Len(doc)
    /\ \E preservedCSS \in buildPreservedCSS(config, stylesheet) :
          doc' = handleStyleTags(config, doc, preservedCSS)
    /\ pc' = "serialize"
    /\ UNCHANGED <<config, htmlContent, sharedLoopVar, stylesheet, idx, result, frame, pass, firstHTML, call, failed>>

\* doc.HTML(): Inline returns the result with the serialized document
Serialize ==
    /\ pc = "serialize"
    /\ result' = [result EXCEPT !.HTML = doc]
    /\ pc' = "done"
    /\ UNCHANGED <<config, htmlContent, sharedLoopVar, doc, stylesheet, idx, frame, pass, firstHTML, call, failed>>

\* The caller runs Inline again, on the HTML the first invocation returned.
InlineAgain ==
    /\ pc = "done"
    /\ pass = "first"
    /\ pass' = "second"
    /\ firstHTML' = result.HTML
    /\ htmlContent' = result.HTML
    /\ doc' = result.HTML
    /\ pc' = "start"
    /\ stylesheet' = <<>>
    /\ idx' = 0
    /\ result' = NoResult
    /\ frame' = NoFrame
    /\ failed' = {}
    /\ UNCHANGED <<config, sharedLoopVar, call>>

Next ==
    \/ ParseDocument
    \/ ProcessElement
    \/ HandleStyleTags
    \/ Serialize
    \/ InlineAgain

Spec == Init /\ [][Next]_vars

----------------------------------------------------------------------------
(* The cascade as the specification states it, for the claims below.       *)

\* processElement has resolved the styles of frame.element
Resolved == frame.stage \in {"empty", "written"}

\* the stylesheet rules that match the node, by index
MatchingIndexes(node) ==
    {i \in 1..Len(stylesheet) : Matches(node, stylesheet[i].Selector)}

\* the declarations of a property that compete for a node: those of the
\* matching rules and that of the style attribute
SheetCandidates(node, p) ==
    { [decl |-> stylesheet[i].Declarations[p],
       rank |-> <<0, stylesheet[i].Specificity.IDs, stylesheet[i].Specificity.Classes,
                  stylesheet[i].Specificity.Elements>>,
       order |-> stylesheet[i].SourceOrder,
       inline |-> FALSE] :
        i \in {j \in MatchingIndexes(node) : p \in DOMAIN stylesheet[j].Declarations} }
InlineCandidates(node, p) ==
    IF p \in DOMAIN GetInlineStyle(node)
    THEN { [decl |-> GetInlineStyle(node)[p], rank |-> <<1000, 0, 0, 0>>,
            order |-> InlineSourceOrder, inline |-> TRUE] }
    ELSE {}
Candidates(node, p) == SheetCandidates(node, p) \cup InlineCandidates(node, p)

\* a > b, component by component from the left
RankAbove(a, b) ==
    \E k \in 1..4 : a[k] > b[k] /\ \A j \in 1..(k - 1) : a[j] = b[j]

\* c outranks d: !important first, then specificity, then source order
Outranks(c, d) ==
    IF c.decl.Important # d.decl.Important THEN c.decl.Important
    ELSE IF c.rank # d.rank THEN RankAbove(c.rank, d.rank)
    ELSE c.order > d.order

\* the properties that compete for a node
CandidateProperties(node) ==
    UNION { DOMAIN stylesheet[i].Declarations : i \in MatchingIndexes(node) }
      \cup DOMAIN GetInlineStyle(node)
----------------------------------------------------------------------------
(* The claims                                                              *)

\* C1: for every element and property the cascade selects, among the
\* declarations of the matching rules and of the style attribute, the one
\* that is greatest under: !important first, then the higher specificity,
\* then the higher source order.
C1_CascadeSelectsGreatest ==
    Resolved =>
        /\ DOMAIN frame.resolved.winningDeclarations = CandidateProperties(frame.element)
        /\ \A p \in CandidateProperties(frame.element) :
              \E c \in Candidates(frame.element, p) :
                  /\ frame.resolved.winningDeclarations[p] = c.decl
                  /\ \A d \in Candidates(frame.element, p) \ {c} : Outranks(c, d)

\* C2: if at least one declaration of a property among the matching rules
\* and the style attribute is !important, the winning declaration of that
\* property is !important, whatever the specificities and the rule order.
C2_ImportantDominates ==
    Resolved =>
        \A p \in CandidateProperties(frame.element) :
            (\E c \in Candidates(frame.element, p) : c.decl.Important)
                => frame.resolved.winningDeclarations[p].Important

\* C3: when a matching rule declares a property !important and the style
\* attribute declares it without !important, the cascade winner, and the
\* declaration written back, is an !important declaration of the stylesheet.
C3_SheetImportantBeatsInline ==
    Resolved =>
        \A p \in DOMAIN GetInlineStyle(frame.element) :
            LET important == {c.decl : c \in {d \in SheetCandidates(frame.element, p) :
                                                  d.decl.Important}}
            IN  (important # {} /\ ~GetInlineStyle(frame.element)[p].Important)
                    => /\ frame.resolved.winningDeclarations[p] \in important
                       /\ frame.stage = "written"
                       /\ p \in DOMAIN frame.finalStyles
                       /\ frame.finalStyles[p] \in important

\* C4: when the style attribute declares a property, no matching stylesheet
\* declaration of that property with the same !important flag wins over it,
\* whatever its specificity: the winner is the inline declaration, or a
\* stylesheet declaration whose flag differs from the inline one; and an
\* inline !important declaration always wins.
C4_InlineDominatesEqualStatus ==
    Resolved =>
        \A p \in DOMAIN GetInlineStyle(frame.element) :
            /\ p \in DOMAIN frame.resolved.winningDeclarations
            /\ \/ /\ frame.resolved.winningSpecs[p].isInline
                  /\ frame.resolved.winningDeclarations[p] = GetInlineStyle(frame.element)[p]
               \/ /\ ~frame.resolved.winningSpecs[p].isInline
                  /\ frame.resolved.winningSpecs[p].important
                         # GetInlineStyle(frame.element)[p].Important
            /\ GetInlineStyle(frame.element)[p].Important
                  => frame.resolved.winningSpecs[p].isInline

\* an inline !important declaration has met a stylesheet !important
\* declaration of a selector with an id, and has won
C4_Witness ==
    /\ Resolved
    /\ \E p \in DOMAIN GetInlineStyle(frame.element) :
          /\ GetInlineStyle(frame.element)[p].Important
          /\ \E c \in SheetCandidates(frame.element, p) : c.decl.Important /\ c.rank[2] > 0
          /\ frame.resolved.winningSpecs[p].isInline

\* the position, among the matches of a node, of the matching rule i
MatchPosition(node, i) == Cardinality({j \in MatchingIndexes(node) : j <= i})

\* the matching rules i < j declare p with the same flag and specificity
Tied(node, i, j, p) ==
    /\ i < j
    /\ p \in DOMAIN stylesheet[i].Declarations
    /\ p \in DOMAIN stylesheet[j].Declarations
    /\ stylesheet[i].Declarations[p].Important = stylesheet[j].Declarations[p].Important
    /\ stylesheet[i].Specificity = stylesheet[j].Specificity

C6_CascadeKeySet ==
    Resolved =>
        /\ DOMAIN frame.resolved.winningDeclarations = CandidateProperties(frame.element)
        /\ ~config.EmailClientOptimizations
              => DOMAIN frame.resolved.finalStyles = CandidateProperties(frame.element)
        /\ \A p \in DOMAIN frame.resolved.winningDeclarations :
              /\ frame.resolved.winningDeclarations[p].Property = p
              /\ \E c \in Candidates(frame.element, p) :
                    frame.resolved.winningDeclarations[p] = c.decl

\* with the optimizations off, an element with a style attribute has matched
\* a rule that declares a property the attribute has and one it has not
C6_Witness ==
    /\ Resolved
    /\ ~config.EmailClientOptimizations
    /\ \E i \in MatchingIndexes(frame.element) :
          /\ DOMAIN stylesheet[i].Declarations \cap DOMAIN GetInlineStyle(frame.element) # {}
          /\ DOMAIN stylesheet[i].Declarations \ DOMAIN GetInlineStyle(frame.element) # {}
    /\ DOMAIN frame.resolved.finalStyles = CandidateProperties(frame.element)

\* the number of times the character c occurs in the text s
Occurrences(s, c) == Cardinality({i \in 1..Len(s) : s[i] = c})

\* the elements of a document that are <p> elements
Paragraphs(d) == SelectSeq(d, LAMBDA n : n.tag = <<"p">>)

\* C7: for the stylesheet text
\*   @media (max-width:600px){p{color:red}} p{font-size:14px}
\* with target gmail and the media queries preserved, Inline gives the <p>
\* element the style font-size: 14px, and leaves exactly one <style> tag,
\* whose body has the media-query rule with its nested rule p{color:red},
\* braces closed, and nothing of the font-size rule.
C7_MediaQueryPreserved ==
    ( /\ pc = "done"
      /\ htmlContent = Document(Join(<<RuleMedia, RulePFontSize>>, <<" ">>),
                                Node(<<"p">>, <<>>, {}, FALSE, <<>>, <<>>))
      /\ config.TargetEmailClient = Gmail
      /\ config.PreserveMediaQueries
      /\ ~config.RemoveStyleTags )
    => /\ Len(Paragraphs(result.HTML)) = 1
       /\ Paragraphs(result.HTML)[1].hasStyle
       /\ Paragraphs(result.HTML)[1].style
             = <<"f","o","n","t","-","s","i","z","e",":"," ","1","4","p","x">>
       /\ Len(GetStyleTags(result.HTML)) = 1
       /\ Contains(result.HTML[GetStyleTags(result.HTML)[1]].text, AtMedia)
       /\ Contains(result.HTML[GetStyleTags(result.HTML)[1]].text, <<"r","e","d">>)
       /\ ~Contains(result.HTML[GetStyleTags(result.HTML)[1]].text,
                    <<"f","o","n","t","-","s","i","z","e">>)
       /\ Occurrences(result.HTML[GetStyleTags(result.HTML)[1]].text, "{") = 2
       /\ Occurrences(result.HTML[GetStyleTags(result.HTML)[1]].text, "}") = 2

\* C8: a declaration that the email-safety filter removes from the computed
\* styles of an element is not written to the style attribute by the
\* stylesheet, and the warnings ValidateStyles gives for it are among the
\* warnings of the result.
C8_ValidationIndependentOfFiltering ==
    Resolved =>
        \A p \in DOMAIN frame.resolved.winningDeclarations
                    \ DOMAIN frame.resolved.finalStyles :
            /\ declarationWarnings(config, p, frame.resolved.winningDeclarations[p]) # <<>>
            /\ \A k \in DOMAIN declarationWarnings(config, p,
                                                   frame.resolved.winningDeclarations[p]) :
                  \E n \in DOMAIN result.Warnings :
                      result.Warnings[n]
                        = declarationWarnings(config, p,
                                              frame.resolved.winningDeclarations[p])[k]

\* the style attributes of the elements of a document other than <style>
StyleAttributes(d) ==
    [i \in DOMAIN SelectSeq(d, LAMBDA n : n.tag # StyleTag) |->
        [hasStyle |-> SelectSeq(d, LAMBDA n : n.tag # StyleTag)[i].hasStyle,
         style |-> SelectSeq(d, LAMBDA n : n.tag # StyleTag)[i].style]]

\* C9: the style attribute of every element of the document the second
\* invocation returns is, character by character, the one the element has
\* in the document the first invocation returned.
C9_InlineTwiceIdempotent ==
    (pc = "done" /\ pass = "second")
        => StyleAttributes(result.HTML) = StyleAttributes(firstHTML)

\* the text of a declaration map as the claim describes it: the properties
\* ascending, "property: value", " !important" when flagged, joined by "; "
SortedStyleText(styles) ==
    IF DOMAIN styles = {} THEN <<>>
    ELSE Join([i \in 1..Cardinality(DOMAIN styles) |->
                  SortedKeys(styles)[i] \o <<":", " ">> \o styles[SortedKeys(styles)[i]].Value
                    \o (IF styles[SortedKeys(styles)[i]].Important
                        THEN <<" ","!","i","m","p","o","r","t","a","n","t">>
                        ELSE <<>>)],
              <<";", " ">>)

\* C10: the style attribute the driver writes to an element is the text of
\* the final declaration map with the properties in ascending order, each as
\* "property: value[ !important]", joined by "; ".
C10_StyleAttributeSorted ==
    (pc = "process" /\ frame.stage = "written")
        => /\ doc[idx - 1].hasStyle
           /\ doc[idx - 1].style = SortedStyleText(frame.finalStyles)

----------------------------------------------------------------------------
(* Inline on documents that have no stylesheet.                            *)

\* every configuration: the three clients, each option on and off
AllConfigs ==
    { Config(target, optimizations, preserve, remove) :
        target \in {Outlook, Gmail, Generic},
        optimizations \in BOOLEAN, preserve \in BOOLEAN, remove \in BOOLEAN }

\* style attributes:  color:green ; float:left;color:red ;
\*   COLOR:red !important;position:absolute ; color:red;content:"a
StyleAttributePool ==
    { <<"c","o","l","o","r",":","g","r","e","e","n">>,
      <<"f","l","o","a","t",":","l","e","f","t",";","c","o","l","o","r",":","r","e","d">>,
      <<"C","O","L","O","R",":","r","e","d"," ","!","i","m","p","o","r","t","a","n","t",";",
        "p","o","s","i","t","i","o","n",":","a","b","s","o","l","u","t","e">>,
      <<"c","o","l","o","r",":","r","e","d",";","c","o","n","t","e","n","t",":","\"","a">> }

\* <p>, <p style="">, and <p style="..."> for each style attribute
StyledElements ==
    { Node(<<"p">>, <<>>, {}, FALSE, <<>>, <<>>), Node(<<"p">>, <<>>, {}, TRUE, <<>>, <<>>) }
      \cup { Node(<<"p">>, <<>>, {}, TRUE, style, <<>>) : style \in StyleAttributePool }

\* documents with an empty <style> tag, a blank one, and none
DocumentsWithoutStylesheet ==
    { Document(<<>>, element) : element \in StyledElements }
      \cup { Document(<<" ">>, element) : element \in StyledElements }
      \cup { RemoveNodes(Document(<<>>, element), {3}, 1) : element \in StyledElements }

InitWithoutStylesheet ==
    /\ config \in AllConfigs
    /\ sharedLoopVar \in BOOLEAN
    /\ htmlContent \in DocumentsWithoutStylesheet
    /\ doc = htmlContent
    /\ pc = "start"
    /\ stylesheet = <<>>
    /\ idx = 0
    /\ result = NoResult
    /\ frame = NoFrame
    /\ pass = "first"
    /\ firstHTML = <<>>
    /\ failed = {}
    /\ call = NoCall

SpecWithoutStylesheet == InitWithoutStylesheet /\ [][Next]_vars

\* the elements of a document other than <style>
ElementsOf(d) == SelectSeq(d, LAMBDA n : n.tag # StyleTag)

\* C11: while Inline runs on a document whose stylesheet is empty, and when
\* it is done, every element without a style attribute has none, and every
\* element with a style attribute has one that declares the same
\* (property, value, !important) as the one it came with.
C11_EmptyStylesheetNoOp ==
    Parse(extractCSS(htmlContent)) = <<>> =>
        /\ Len(ElementsOf(doc)) = Len(ElementsOf(htmlContent))
        /\ \A i \in DOMAIN ElementsOf(htmlContent) :
              /\ ElementsOf(doc)[i].hasStyle = ElementsOf(htmlContent)[i].hasStyle
              /\ GetInlineStyle(ElementsOf(doc)[i])
                    = GetInlineStyle(ElementsOf(htmlContent)[i])

----------------------------------------------------------------------------
(* The functions of the packages, each called on its own.                  *)

inlinerVars ==
    <<config, htmlContent, sharedLoopVar, doc, pc, stylesheet, idx, result, frame, pass,
      firstHTML, failed>>

\* no invocation of Inline is under way
InlinerIdle ==
    /\ config = Config(Generic, FALSE, FALSE, FALSE)
    /\ sharedLoopVar = FALSE
    /\ htmlContent = <<>>
    /\ doc = <<>>
    /\ pc = "idle"
    /\ stylesheet = <<>>
    /\ idx = 0
    /\ result = NoResult
    /\ frame = NoFrame
    /\ pass = "first"
    /\ firstHTML = <<>>
    /\ failed = {}

\* the declaration maps over color and width, each absent or one of
\* red, blue, red !important, blue !important
DeclarationPool(property) ==
    { [Property |-> property, Value |-> value, Important |-> important] :
        value \in { <<"r","e","d">>, <<"b","l","u","e">> }, important \in BOOLEAN }
StyleMaps ==
    UNION { { [p \in keys |-> pick[p]] :
                pick \in { f \in [keys -> DeclarationPool(<<"c","o","l","o","r">>)
                                          \cup DeclarationPool(<<"w","i","d","t","h">>)] :
                             \A p \in keys : f[p].Property = p } } :
            keys \in SUBSET { <<"c","o","l","o","r">>, <<"w","i","d","t","h">> } }

\* the calls of MergeStyles
MergeCalls ==
    { [op |-> "MergeStyles", stage |-> "called", existing |-> x, newStyles |-> y] :
        x \in StyleMaps, y \in StyleMaps }

\* merged := MergeStyles(existing, newStyles)
CallMergeStyles ==
    /\ call.op = "MergeStyles"
    /\ call.stage = "called"
    /\ call' = [op |-> "MergeStyles", stage |-> "returned", existing |-> call.existing,
                newStyles |-> call.newStyles,
                merged |-> MergeStyles(call.existing, call.newStyles)]
    /\ UNCHANGED inlinerVars

\* again := MergeStyles(merged, newStyles)
CallMergeStylesAgain ==
    /\ call.op = "MergeStyles"
    /\ call.stage = "returned"
    /\ call' = [op |-> "MergeStyles", stage |-> "merged again", existing |-> call.existing,
                newStyles |-> call.newStyles, merged |-> call.merged,
                again |-> MergeStyles(call.merged, call.newStyles)]
    /\ UNCHANGED inlinerVars

\* the declarations a block is written from, well-formed:
\*   color:red   color:blue !important   COLOR:green   margin:0
WellFormedParts ==
    { <<"c","o","l","o","r",":","r","e","d">>,
      <<"c","o","l","o","r",":","b","l","u","e"," ","!","i","m","p","o","r","t","a","n","t">>,
      <<"C","O","L","O","R",":","g","r","e","e","n">>,
      <<"m","a","r","g","i","n",":","0">> }
\* and malformed: no colon, no property, no value, a quote left open
\*   width   :1px   height:   content:"a
MalformedParts ==
    { <<"w","i","d","t","h">>, <<":","1","p","x">>, <<"h","e","i","g","h","t",":">>,
      <<"c","o","n","t","e","n","t",":","\"","a">> }

\* the most declarations a block of the model has
MaxDeclarations == 3

\* the selectors of the rules parsed:  p   and   h1, .a
SelectorPool == { <<"p">>, <<"h","1",","," ",".","a">> }

\* the calls of Parse: on  selector{part;part;part}
ParseCalls ==
    { [op |-> "Parse", stage |-> "called", selector |-> selector, parts |-> parts,
       cssText |-> selector \o <<"{">> \o Join(parts, <<";">>) \o <<"}">>] :
        selector \in SelectorPool,
        parts \in UNION { [1..n -> WellFormedParts \cup MalformedParts] :
                            n \in 1..MaxDeclarations } }

\* rules := Parse(cssText), and the block read as a style attribute:
\* inlineStyles := ParseInlineStyle(block)
CallParse ==
    /\ call.op = "Parse"
    /\ call.stage = "called"
    /\ call' = [op |-> "Parse", stage |-> "returned", selector |-> call.selector,
                parts |-> call.parts, cssText |-> call.cssText,
                rules |-> Parse(call.cssText),
                inlineStyles |-> ParseInlineStyle(Join(call.parts, <<";">>))]
    /\ UNCHANGED inlinerVars

\* formatted := formatCSSRule(rule) for a rule Parse returned, in one of the
\* orders the declarations may be ranged over; reparsed := Parse(formatted)
CallFormatCSSRule ==
    /\ call.op = "Parse"
    /\ call.stage = "returned"
    /\ \E i \in DOMAIN call.rules :
          \E order \in Orders(DOMAIN call.rules[i].Declarations) :
              call' = [op |-> "Parse", stage |-> "formatted", selector |-> call.selector,
                       parts |-> call.parts, cssText |-> call.cssText,
                       rules |-> call.rules, inlineStyles |-> call.inlineStyles,
                       rule |-> call.rules[i],
                       formatted |-> formatCSSRule(call.rules[i], order),
                       reparsed |-> Parse(formatCSSRule(call.rules[i], order))]
    /\ UNCHANGED inlinerVars

\* the selectors whose specificity is calculated:
\*   p  td  h1  .name  .btn-primary  #name  p.hi
SpecificityCalls ==
    { [op |-> "calculateSpecificity", stage |-> "called", selector |-> selector] :
        selector \in { <<"p">>, <<"t","d">>, <<"h","1">>, <<".","n","a","m","e">>,
                       <<".","b","t","n","-","p","r","i","m","a","r","y">>,
                       <<"#","n","a","m","e">>, <<"p",".","h","i">> } }

\* specificity := calculateSpecificity(selector), and the same for the
\* selector with ::before behind it
CallCalculateSpecificity ==
    /\ call.op = "calculateSpecificity"
    /\ call.stage = "called"
    /\ call' = [op |-> "calculateSpecificity", stage |-> "returned",
                selector |-> call.selector,
                specificity |-> calculateSpecificity(call.selector),
                withBefore |-> calculateSpecificity(
                    call.selector \o <<":",":","b","e","f","o","r","e">>)]
    /\ UNCHANGED inlinerVars

\* the style attributes of one declaration read on their own:
\*   color:red !important   color:red ! important   color:red !IMPORTANT
\*   color:red !Important   color:!important   color:red
StyleAttributeCalls ==
    { [op |-> "ParseInlineStyle", stage |-> "called", styleAttr |-> styleAttr] :
        styleAttr \in
          { <<"c","o","l","o","r",":","r","e","d"," ","!","i","m","p","o","r","t","a","n","t">>,
            <<"c","o","l","o","r",":","r","e","d"," ","!"," ","i","m","p","o","r","t","a","n","t">>,
            <<"c","o","l","o","r",":","r","e","d"," ","!","I","M","P","O","R","T","A","N","T">>,
            <<"c","o","l","o","r",":","r","e","d"," ","!","I","m","p","o","r","t","a","n","t">>,
            <<"c","o","l","o","r",":","!","i","m","p","o","r","t","a","n","t">>,
            <<"c","o","l","o","r",":","r","e","d">> } }

\* declarations := ParseInlineStyle(styleAttr)
CallParseInlineStyle ==
    /\ call.op = "ParseInlineStyle"
    /\ call.stage = "called"
    /\ call' = [op |-> "ParseInlineStyle", stage |-> "returned",
                styleAttr |-> call.styleAttr,
                declarations |-> ParseInlineStyle(call.styleAttr)]
    /\ UNCHANGED inlinerVars

\* the cascade winners the filter is called on: any of
\*   color: red   position: absolute   float: left   content: x
\* and display: block or display: flex, for each client, filtering on or off
FilterCalls ==
    { [op |-> "filterEmailSafeStyles", stage |-> "called",
       cfg |-> Config(target, optimizations, FALSE, FALSE),
       styles |-> [p \in keys \cup shown |->
                     [Property |-> p,
                      Value |-> IF p = <<"c","o","l","o","r">> THEN <<"r","e","d">>
                                ELSE IF p = Position THEN <<"a","b","s","o","l","u","t","e">>
                                ELSE IF p = Float THEN <<"l","e","f","t">>
                                ELSE IF p = Display THEN display
                                ELSE <<"x">>,
                      Important |-> p = Float]]] :
        target \in {Outlook, Gmail, Generic}, optimizations \in BOOLEAN,
        keys \in SUBSET { <<"c","o","l","o","r">>, Position, Float, <<"c","o","n","t","e","n","t">> },
        shown \in SUBSET {Display},
        display \in { <<"b","l","o","c","k">>, <<"f","l","e","x">> } }

\* step 4 of ResolveStyles on the cascade winners
CallFilterEmailSafeStyles ==
    /\ call.op = "filterEmailSafeStyles"
    /\ call.stage = "called"
    /\ call' = [op |-> "filterEmailSafeStyles", stage |-> "returned",
                cfg |-> call.cfg, styles |-> call.styles,
                finalStyles |-> IF call.cfg.EmailClientOptimizations
                                THEN filterEmailSafeStyles(call.cfg, call.styles)
                                ELSE call.styles]
    /\ UNCHANGED inlinerVars

\* the stylesheets buildPreservedCSS is called on: parsed from up to MaxRules
\* rules  selector{color:red}  with a selector of
\*   p   a:hover   p::before   @font-face   @media print
\* for each setting of the two preserve flags
PreservedCalls ==
    { [op |-> "buildPreservedCSS", stage |-> "called",
       cfg |-> [Config(Generic, FALSE, media, FALSE) EXCEPT !.PreservePseudoSelectors = pseudo],
       selectors |-> selectors] :
        media \in BOOLEAN, pseudo \in BOOLEAN,
        selectors \in UNION { [1..n -> { <<"p">>, <<"a",":","h","o","v","e","r">>,
                                         <<"p",":",":","b","e","f","o","r","e">>,
                                         <<"@","f","o","n","t","-","f","a","c","e">>,
                                         <<"@","m","e","d","i","a"," ","p","r","i","n","t">> }] :
                               n \in 1..MaxRules } }

\* stylesheet := Parse(the rules); preservedCSS := buildPreservedCSS(stylesheet)
CallBuildPreservedCSS ==
    /\ call.op = "buildPreservedCSS"
    /\ call.stage = "called"
    /\ \E preservedCSS \in buildPreservedCSS(call.cfg,
            Parse(Join([i \in DOMAIN call.selectors |->
                          call.selectors[i] \o <<"{","c","o","l","o","r",":","r","e","d","}">>],
                       <<" ">>))) :
          call' = [op |-> "buildPreservedCSS", stage |-> "returned", cfg |-> call.cfg,
                   selectors |-> call.selectors, preservedCSS |-> preservedCSS]
    /\ UNCHANGED inlinerVars

InitCalls ==
    /\ InlinerIdle
    /\ call \in MergeCalls \cup ParseCalls \cup SpecificityCalls \cup StyleAttributeCalls
                \cup FilterCalls \cup PreservedCalls

NextCalls ==
    \/ CallMergeStyles
    \/ CallMergeStylesAgain
    \/ CallParse
    \/ CallFormatCSSRule
    \/ CallCalculateSpecificity
    \/ CallParseInlineStyle
    \/ CallFilterEmailSafeStyles
    \/ CallBuildPreservedCSS

SpecCalls == InitCalls /\ [][NextCalls]_vars

\* C12: merging the new styles a second time into the result of the merge
\* gives the result of the merge: MergeStyles(MergeStyles(x, y), y) is
\* MergeStyles(x, y).
C12_MergeIdempotent ==
    (call.op = "MergeStyles" /\ call.stage = "merged again") => call.again = call.merged

\* a merge that kept an existing !important declaration and installed a new
\* declaration has been merged again
C12_Witness ==
    /\ call.op = "MergeStyles"
    /\ call.stage = "merged again"
    /\ call.again = call.merged
    /\ \E p, q \in DOMAIN call.existing \cap DOMAIN call.newStyles :
          /\ call.merged[p] = call.existing[p] /\ call.merged[p] # call.newStyles[p]
          /\ call.merged[q] = call.newStyles[q] /\ call.merged[q] # call.existing[q]

\* C13: the keys of the merge are the keys of both maps; a property of one
\* map only keeps its declaration; a property of both maps holds the
\* existing declaration when that one is !important and the new one is not,
\* and the new declaration otherwise.
C13_MergeKeepsImportant ==
    (call.op = "MergeStyles" /\ call.stage = "returned") =>
        /\ DOMAIN call.merged = DOMAIN call.existing \cup DOMAIN call.newStyles
        /\ \A p \in DOMAIN call.existing \ DOMAIN call.newStyles :
              call.merged[p] = call.existing[p]
        /\ \A p \in DOMAIN call.newStyles \ DOMAIN call.existing :
              call.merged[p] = call.newStyles[p]
        /\ \A p \in DOMAIN call.existing \cap DOMAIN call.newStyles :
              call.merged[p] = IF call.existing[p].Important /\ ~call.newStyles[p].Important
                               THEN call.existing[p]
                               ELSE call.newStyles[p]

\* an existing !important declaration has been kept against a new one that
\* is not, next to a property that only the new map declares
C13_Witness ==
    /\ call.op = "MergeStyles"
    /\ call.stage = "returned"
    /\ \E p \in DOMAIN call.existing \cap DOMAIN call.newStyles :
          /\ call.existing[p].Important /\ ~call.newStyles[p].Important
          /\ call.existing[p].Value # call.newStyles[p].Value
          /\ call.merged[p] = call.existing[p]
    /\ \E q \in DOMAIN call.newStyles \ DOMAIN call.existing :
          call.merged[q] = call.newStyles[q]

\* C14: a rule Parse returned, written as text by formatCSSRule and parsed
\* again, gives one rule, with the selector of the rule, its properties, and
\* for each property its value and its !important flag.
C14_ParseFormatRoundTrip ==
    (call.op = "Parse" /\ call.stage = "formatted") =>
        /\ Len(call.reparsed) = 1
        /\ call.reparsed[1].Selector = call.rule.Selector
        /\ DOMAIN call.reparsed[1].Declarations = DOMAIN call.rule.Declarations
        /\ \A p \in DOMAIN call.rule.Declarations :
              /\ p \in DOMAIN call.reparsed[1].Declarations
              /\ call.reparsed[1].Declarations[p].Value = call.rule.Declarations[p].Value
              /\ call.reparsed[1].Declarations[p].Important
                    = call.rule.Declarations[p].Important

\* the part i of the block is well-formed and no later well-formed part
\* declares its property
LastWellFormed(parts, i) ==
    /\ parts[i] \in WellFormedParts
    /\ \A j \in (i + 1)..Len(parts) :
          parts[j] \in WellFormedParts
              => DOMAIN parseDeclarations(parts[j]) # DOMAIN parseDeclarations(parts[i])

\* C15: in a block with malformed declarations (no colon, no property, no
\* value, a quote left open) every well-formed declaration, before or after
\* a malformed one, is in the parsed map with the property, the value and
\* the !important flag it has on its own, and the malformed ones add nothing.
C15_MalformedDropped ==
    (call.op = "Parse" /\ call.stage = "returned") =>
        /\ Len(call.rules) = 1
        /\ \A i \in DOMAIN call.parts :
              LastWellFormed(call.parts, i) =>
                  \A p \in DOMAIN parseDeclarations(call.parts[i]) :
                      /\ p \in DOMAIN call.rules[1].Declarations
                      /\ call.rules[1].Declarations[p] = parseDeclarations(call.parts[i])[p]
        /\ \A p \in DOMAIN call.rules[1].Declarations :
              \E i \in DOMAIN call.parts :
                  /\ call.parts[i] \in WellFormedParts
                  /\ p \in DOMAIN parseDeclarations(call.parts[i])

\* what each well-formed declaration of the pool declares, read off its text:
\* the property in lower case, the value, the !important flag
DeclaredBy(part) ==
    CASE part = <<"c","o","l","o","r",":","r","e","d">> ->
            [Property |-> <<"c","o","l","o","r">>, Value |-> <<"r","e","d">>, Important |-> FALSE]
      [] part = <<"c","o","l","o","r",":","b","l","u","e"," ","!","i","m","p","o","r","t","a","n","t">> ->
            [Property |-> <<"c","o","l","o","r">>, Value |-> <<"b","l","u","e">>, Important |-> TRUE]
      [] part = <<"C","O","L","O","R",":","g","r","e","e","n">> ->
            [Property |-> <<"c","o","l","o","r">>, Value |-> <<"g","r","e","e","n">>, Important |-> FALSE]
      [] part = <<"m","a","r","g","i","n",":","0">> ->
            [Property |-> <<"m","a","r","g","i","n">>, Value |-> <<"0">>, Important |-> FALSE]

\* the block has no quote left open
NoOpenQuote(parts) == \A i \in DOMAIN parts : ~Contains(parts[i], <<"\"">>)

\* the positions of the well-formed declarations of the property p
DeclaringParts(parts, p) ==
    {i \in DOMAIN parts : parts[i] \in WellFormedParts /\ DeclaredBy(parts[i]).Property = p}

\* the declarations map has, for every property declared in the block, the
\* declaration that is last in the text, and nothing else
LastDeclarationWins(parts, declarations) ==
    /\ DOMAIN declarations =
          {DeclaredBy(parts[i]).Property : i \in {j \in DOMAIN parts : parts[j] \in WellFormedParts}}
    /\ \A p \in DOMAIN declarations :
          \E i \in DeclaringParts(parts, p) :
              /\ \A j \in DeclaringParts(parts, p) : j <= i
              /\ declarations[p] = DeclaredBy(parts[i])

\* C16: when one block declares a property more than once, the parsed map
\* has one entry for it, the declaration that is last in the text (its value
\* and its !important flag), the names compared in lower case; the same for
\* the block of a rule and for the text of a style attribute.
C16_LastDuplicateWins ==
    (call.op = "Parse" /\ call.stage = "returned" /\ NoOpenQuote(call.parts)) =>
        /\ Len(call.rules) = 1
        /\ LastDeclarationWins(call.parts, call.rules[1].Declarations)
        /\ LastDeclarationWins(call.parts, call.inlineStyles)

\* a block  color:blue !important; ... COLOR:green  has been parsed: the
\* later declaration, in other case and not important, is the one kept
C16_Witness ==
    /\ call.op = "Parse"
    /\ call.stage = "returned"
    /\ NoOpenQuote(call.parts)
    /\ \E i, j \in DOMAIN call.parts :
          /\ i < j
          /\ call.parts[i] = <<"c","o","l","o","r",":","b","l","u","e"," ","!","i","m","p","o","r","t","a","n","t">>
          /\ call.parts[j] = <<"C","O","L","O","R",":","g","r","e","e","n">>
          /\ \A k \in (j + 1)..Len(call.parts) : call.parts[k] \notin WellFormedParts
    /\ call.rules[1].Declarations[<<"c","o","l","o","r">>].Value = <<"g","r","e","e","n">>
    /\ ~call.inlineStyles[<<"c","o","l","o","r">>].Important

\* the comma-separated groups of a selector of the pool
SelectorGroups(selector) ==
    IF selector = <<"h","1",","," ",".","a">> THEN << <<"h","1">>, <<".","a">> >>
    ELSE << selector >>

\* C20: Parse returns one rule for each comma-separated group of the
\* selector, in order, each with the group as its selector, the specificity
\* of the group and the declarations of the block.
C20_OneRulePerSelectorGroup ==
    (call.op = "Parse" /\ call.stage = "returned" /\ NoOpenQuote(call.parts)) =>
        /\ Len(call.rules) = Len(SelectorGroups(call.selector))
        /\ \A i \in DOMAIN call.rules :
              /\ call.rules[i].Selector = SelectorGroups(call.selector)[i]
              /\ call.rules[i].Specificity = calculateSpecificity(SelectorGroups(call.selector)[i])
              /\ call.rules[i].Declarations = call.rules[1].Declarations

\* the number of rules buildPreservedCSS emitted into the <style> tag the
\* document keeps; 0 when no <style> tag is left
RulesPreserved ==
    IF \E i \in DOMAIN doc : doc[i].tag = StyleTag
    THEN Cardinality({i \in DOMAIN stylesheet : shouldPreserve(config, stylesheet[i])})
    ELSE 0

\* C19: when Inline has returned, the PreservedRules of its result is the
\* number of rules preserved in the remaining <style> tag, and 0 when the
\* <style> tags were removed.
C19_PreservedRulesCounted ==
    pc = "done" => result.PreservedRules = RulesPreserved

----------------------------------------------------------------------------
(* Inline when a call of the html package returns an error.                *)

\* what Inline returns for the result with an error: nil
NilResult == [nil |-> TRUE]

\* @media (max-width:600px){p{color:red} div{color:blue}}
RuleMediaOfTwo ==
    <<"@","m","e","d","i","a"," ","(","m","a","x","-","w","i","d","t","h",":","6","0","0","p","x",")","{","p","{","c","o","l","o","r",":","r","e","d","}"," ","d","i","v","{","c","o","l","o","r",":","b","l","u","e","}","}">>

\* the documents: one <style> tag or two, or <html style="color:green">,
\* over four stylesheets
InitFaults ==
    /\ config \in ConfigPool
    /\ sharedLoopVar \in BOOLEAN
    /\ \E css \in {RuleStarImportant, RulePBlueWidth, RuleStarImportant \o <<" ">> \o RuleMedia,
                   RuleMediaOfTwo} :
          \E element \in ElementPool :
              htmlContent \in
                  { Document(css, element),
                    SubSeq(Document(css, element), 1, 3)
                        \o << Node(StyleTag, <<>>, {}, FALSE, <<>>, RulePFontSize) >>
                        \o SubSeq(Document(css, element), 4, 5),
                    [Document(css, element) EXCEPT ![1] =
                        Node(<<"h","t","m","l">>, <<>>, {}, TRUE,
                             <<"c","o","l","o","r",":","g","r","e","e","n">>, <<>>)] }
    /\ doc = htmlContent
    /\ pc = "start"
    /\ stylesheet = <<>>
    /\ idx = 0
    /\ result = NoResult
    /\ frame = NoFrame
    /\ pass = "first"
    /\ firstHTML = <<>>
    /\ failed = {}
    /\ call = NoCall

\* htmlParser.Parse, GetStyleTags in extractCSS or QuerySelectorAll in
\* processDocument returns an error: Inline returns nil and the error
ParseDocumentFails ==
    /\ pc = "start"
    /\ \E c \in {"Parse", "GetStyleTags", "QuerySelectorAll"} :
          failed' = failed \cup {[call |-> c, element |-> 0]}
    /\ result' = NilResult
    /\ pc' = "failed"
    /\ UNCHANGED <<config, htmlContent, sharedLoopVar, doc, stylesheet, idx, frame, pass,
                   firstHTML, call>>

\* (a variant of SetInlineStyleFails in which the declarations are counted)
SetInlineStyleFailsCounted ==
    /\ pc = "process"
    /\ idx <= Len(doc)
    /\ idx' = idx + 1
    /\ \E out \in processElement(config, stylesheet, doc[idx], sharedLoopVar) :
          /\ out.frame.stage = "written"
          /\ result' = [result EXCEPT !.Warnings = @ \o out.warnings,
                                      !.InlinedStyles = @ + out.inlined]
          /\ frame' = [out.frame EXCEPT !.stage = "failed"]
    /\ failed' = failed \cup {[call |-> "SetInlineStyle", element |-> idx]}
    /\ UNCHANGED <<config, htmlContent, sharedLoopVar, doc, pc, stylesheet, pass, firstHTML,
                   call>>

\* processElement on the next element, SetInlineStyle returning an error:
\* the warnings are appended already, the element is not written, nothing
\* is added to InlinedStyles, and processDocument continues with the next
SetInlineStyleFails ==
    /\ pc = "process"
    /\ idx <= Len(doc)
    /\ idx' = idx + 1
    /\ \E out \in processElement(config, stylesheet, doc[idx], sharedLoopVar) :
          /\ out.frame.stage = "written"
          /\ result' = [result EXCEPT !.Warnings = @ \o out.warnings]
          /\ frame' = [out.frame EXCEPT !.stage = "failed"]
    /\ failed' = failed \cup {[call |-> "SetInlineStyle", element |-> idx]}
    /\ UNCHANGED <<config, htmlContent, sharedLoopVar, doc, pc, stylesheet, pass, firstHTML,
                   call>>

\* handleStyleTags, the call k on a <style> tag returning an error, the
\* calls before it done: the document as handleStyleTags leaves it then
handleStyleTagsUpTo(cfg, d, preservedCSS, k) ==
    LET styleTags == GetStyleTags(d)
    IN  IF cfg.RemoveStyleTags \/ preservedCSS = <<>>
        THEN RemoveNodes(d, {styleTags[j] : j \in 1..(k - 1)}, 1)
        ELSE IF k = 1 THEN d
        ELSE RemoveNodes([d EXCEPT ![styleTags[1]] = SetText(@, preservedCSS)],
                         {styleTags[j] : j \in 2..(k - 1)}, 1)

\* (a variant of HandleStyleTagsFails in which Inline goes on to serialize)
HandleStyleTagsFailsUnnoticed ==
    /\ pc = "process"
    /\ idx > Len(doc)
    /\ \E preservedCSS \in buildPreservedCSS(config, stylesheet) :
          \E k \in 0..Len(GetStyleTags(doc)) :
              /\ doc' = handleStyleTagsUpTo(config, doc, preservedCSS, IF k = 0 THEN 1 ELSE k)
              /\ failed' = failed \cup
                    {[call |-> IF k = 0 THEN "GetStyleTags"
                               ELSE IF config.RemoveStyleTags \/ preservedCSS = <<>> \/ k > 1
                                    THEN "Remove" ELSE "SetText",
                      element |-> k]}
    /\ pc' = "serialize"
    /\ UNCHANGED <<config, htmlContent, sharedLoopVar, stylesheet, idx, result, frame, pass,
                   firstHTML, call>>

\* handleStyleTags returns an error: of GetStyleTags (k = 0), or of the
\* Remove or SetText on the <style> tag k; Inline returns nil and the error
HandleStyleTagsFails ==
    /\ pc = "process"
    /\ idx > Len(doc)
    /\ \E preservedCSS \in buildPreservedCSS(config, stylesheet) :
          \E k \in 0..Len(GetStyleTags(doc)) :
              /\ doc' = handleStyleTagsUpTo(config, doc, preservedCSS, IF k = 0 THEN 1 ELSE k)
              /\ failed' = failed \cup
                    {[call |-> IF k = 0 THEN "GetStyleTags"
                               ELSE IF config.RemoveStyleTags \/ preservedCSS = <<>> \/ k > 1
                                    THEN "Remove" ELSE "SetText",
                      element |-> k]}
    /\ result' = NilResult
    /\ pc' = "failed"
    /\ UNCHANGED <<config, htmlContent, sharedLoopVar, stylesheet, idx, frame, pass,
                   firstHTML, call>>

\* doc.HTML() returns an error: Inline returns nil and the error
SerializeFails ==
    /\ pc = "serialize"
    /\ failed' = failed \cup {[call |-> "HTML", element |-> 0]}
    /\ result' = NilResult
    /\ pc' = "failed"
    /\ UNCHANGED <<config, htmlContent, sharedLoopVar, doc, stylesheet, idx, frame, pass,
                   firstHTML, call>>

NextFaults ==
    \/ Next
    \/ ParseDocumentFails
    \/ SetInlineStyleFails
    \/ HandleStyleTagsFails
    \/ SerializeFails

SpecFaults == InitFaults /\ [][NextFaults]_vars

\* C17: when the parsing of the HTML, the extraction of the <style> tags,
\* the update or removal of a <style> tag or the serialization has failed,
\* Inline has returned the error and nil for the result, no HTML text,
\* whatever it had written to the elements; and it returns a result only
\* when none of these has failed.
C17_NoPartialResult ==
    /\ (\E f \in failed : f.call # "SetInlineStyle") => pc = "failed"
    /\ pc = "failed" => result = NilResult
    /\ pc = "done" => result # NilResult /\ result.HTML = doc

\* handleStyleTags has failed after style attributes had been rewritten
C17_Witness ==
    /\ pc = "failed"
    /\ \E f \in failed : f.call \in {"Remove", "SetText"}
    /\ \E i \in DOMAIN htmlContent :
          /\ htmlContent[i].tag # StyleTag
          /\ doc[i] # htmlContent[i]

\* the SetInlineStyle on the element i has failed in this invocation
WriteFailed(i) == [call |-> "SetInlineStyle", element |-> i] \in failed

\* the declarations in the style attributes written to the first n elements:
\* an element is written when its write has not failed and the document has
\* it other than it was
RECURSIVE DeclarationsWritten(_)
DeclarationsWritten(n) ==
    IF n = 0 THEN 0
    ELSE DeclarationsWritten(n - 1)
           + (IF ~WriteFailed(n) /\ doc[n] # htmlContent[n]
              THEN Cardinality(DOMAIN ParseInlineStyle(doc[n].style)) ELSE 0)

\* in the loop of processDocument of the first invocation: a failed element
\* is as it was, and InlinedStyles counts the declarations written
InlinedStylesCounted ==
    (pc = "process" /\ pass = "first") =>
        /\ \A i \in 1..(idx - 1) : WriteFailed(i) => doc[i] = htmlContent[i]
        /\ result.InlinedStyles = DeclarationsWritten(idx - 1)

\* a step of the loop: after a failed write processDocument goes on, and an
\* element whose write does not fail becomes what processElement makes of
\* the element of the document Inline was called with, whichever writes
\* failed before
ElementsIndependent ==
    (pc = "process" /\ idx <= Len(doc)) =>
        /\ pc' = "process"
        /\ idx' = idx + 1
        /\ \A i \in DOMAIN doc : i # idx => doc'[i] = doc[i]
        /\ IF [call |-> "SetInlineStyle", element |-> idx] \in failed'
           THEN doc' = doc /\ result'.InlinedStyles = result.InlinedStyles
           ELSE \E out \in processElement(config, stylesheet, htmlContent[idx], sharedLoopVar) :
                   /\ doc'[idx] = out.element
                   /\ result'.InlinedStyles = result.InlinedStyles + out.inlined

\* C18: a SetInlineStyle that fails leaves its element unchanged and adds
\* nothing to InlinedStyles; processDocument goes on, every other element
\* is processed as without the failure, Inline does not fail for it, and
\* InlinedStyles is the number of declarations written by the writes that
\* succeeded.
C18_ElementFailureIsolated ==
    /\ [](InlinedStylesCounted /\ (pc = "failed" => \E f \in failed : f.call # "SetInlineStyle"))
    /\ [][ElementsIndependent]_vars

\* Inline has returned a result although the write of one element failed,
\* after or before another element was written
C18_Witness ==
    /\ pc = "done"
    /\ pass = "first"
    /\ \E i \in DOMAIN htmlContent : WriteFailed(i)
    /\ result.InlinedStyles > 0

\* the specificity CSS gives the selectors of the pool: ids, classes, elements
CSSSpecificity(selector) ==
    CASE selector = <<"p">> -> <<0, 0, 1>>
      [] selector = <<"t","d">> -> <<0, 0, 1>>
      [] selector = <<"h","1">> -> <<0, 0, 1>>
      [] selector = <<".","n","a","m","e">> -> <<0, 1, 0>>
      [] selector = <<".","b","t","n","-","p","r","i","m","a","r","y">> -> <<0, 1, 0>>
      [] selector = <<"#","n","a","m","e">> -> <<1, 0, 0>>
      [] selector = <<"p",".","h","i">> -> <<0, 1, 1>>

\* C21: calculateSpecificity gives a simple selector the specificity CSS
\* gives it: a type selector (0,0,0,1), a class selector (0,0,1,0), an id
\* selector (0,1,0,0), p.hi (0,0,1,1); the name of an id or a class is not
\* counted as an element.
C21_SimpleSelectorSpecificity ==
    (call.op = "calculateSpecificity" /\ call.stage = "returned") =>
        /\ call.specificity.Inline = 0
        /\ << call.specificity.IDs, call.specificity.Classes, call.specificity.Elements >>
              = CSSSpecificity(call.selector)

\* C22: ::before behind a selector leaves the count of classes as it is and
\* raises the count of elements by exactly 1.
C22_PseudoElementCountedOnce ==
    (call.op = "calculateSpecificity" /\ call.stage = "returned") =>
        /\ call.withBefore.IDs = call.specificity.IDs
        /\ call.withBefore.Classes = call.specificity.Classes
        /\ call.withBefore.Elements = call.specificity.Elements + 1

\* the value of the declaration ends in a marker: an exclamation mark, then
\* the word important in any case, after optional white space
HasMarker(styleAttr) ==
    \E i \in DOMAIN styleAttr :
        /\ styleAttr[i] = "!"
        /\ ToLower(TrimSpace(SubSeq(styleAttr, i + 1, Len(styleAttr)))) = ImportantWord

\* C23: a value that ends in the !important marker, in any case and with
\* optional white space, is parsed as important, the marker stripped:
\* color:red with each of the markers is color: red, important.
C23_ImportantMarkerAnyCase ==
    (/\ call.op = "ParseInlineStyle"
     /\ call.stage = "returned"
     /\ HasMarker(call.styleAttr)
     /\ HasPrefix(call.styleAttr, <<"c","o","l","o","r",":","r","e","d">>)) =>
        /\ DOMAIN call.declarations = { <<"c","o","l","o","r">> }
        /\ call.declarations[<<"c","o","l","o","r">>] =
              [Property |-> <<"c","o","l","o","r">>, Value |-> <<"r","e","d">>,
               Important |-> TRUE]

\* the declaration maps the call has returned
DeclarationsReturned ==
    IF call.op = "ParseInlineStyle" /\ call.stage = "returned" THEN {call.declarations}
    ELSE IF call.op = "Parse" /\ call.stage # "called"
    THEN {call.inlineStyles} \cup {call.rules[i].Declarations : i \in DOMAIN call.rules}
    ELSE {}

\* C24: every declaration parsed, of a rule or of a style attribute, has a
\* property and a value that are not empty.
C24_DeclarationsNonEmpty ==
    \A declarations \in DeclarationsReturned :
        \A p \in DOMAIN declarations :
            /\ p # <<>>
            /\ declarations[p].Property # <<>>
            /\ declarations[p].Value # <<>>

\* the filter keeps the property for the client, as the five rules state
\* it; of the clients of the model, gmail alone has a profile that does not
\* require inline styles
KeptForClient(target, property, value) ==
    \/ property = <<"c","o","l","o","r">>
    \/ property = <<"p","o","s","i","t","i","o","n">> /\ target = Gmail
    \/ property = <<"f","l","o","a","t">> /\ target # Outlook
    \/ property = <<"d","i","s","p","l","a","y">> /\ value = <<"b","l","o","c","k">>
    \/ property = <<"c","o","n","t","e","n","t">> /\ target = Gmail

\* C25: with EmailClientOptimizations the filter returns exactly the
\* winners that are email-safe, or position or any other property for a
\* profile that does not require inline styles, or float for a client other
\* than outlook, or display with a value of block, inline, table, table-cell,
\* each with its declaration unchanged; without it, all winners.
C25_FilterKeepsExactly ==
    (call.op = "filterEmailSafeStyles" /\ call.stage = "returned") =>
        /\ DOMAIN call.finalStyles =
              IF call.cfg.EmailClientOptimizations
              THEN {p \in DOMAIN call.styles :
                      KeptForClient(call.cfg.TargetEmailClient, p, call.styles[p].Value)}
              ELSE DOMAIN call.styles
        /\ \A p \in DOMAIN call.finalStyles : call.finalStyles[p] = call.styles[p]

\* the filter was on for generic and has dropped position, content and
\* display: flex, and kept color and float
C25_Witness ==
    /\ call.op = "filterEmailSafeStyles"
    /\ call.stage = "returned"
    /\ call.cfg.EmailClientOptimizations
    /\ call.cfg.TargetEmailClient = Generic
    /\ DOMAIN call.styles = { <<"c","o","l","o","r">>, Position, Float, Display,
                              <<"c","o","n","t","e","n","t">> }
    /\ call.styles[Display].Value = <<"f","l","e","x">>
    /\ DOMAIN call.finalStyles = { <<"c","o","l","o","r">>, Float }

\* C26: with EmailClientOptimizations, the style attribute processElement
\* writes holds no property the filter rejects for the target client, also
\* none that the element had in its style attribute before.
C26_WrittenStylesFiltered ==
    (frame.stage = "written" /\ config.EmailClientOptimizations) =>
        \A p \in DOMAIN frame.finalStyles :
            KeptForClient(config.TargetEmailClient, p, frame.finalStyles[p].Value)

\* C27: no declaration of a rule nested in an @media block is written to an
\* element (with the block of two nested rules as the stylesheet, no element
\* gets the red or the blue), and the rules behind a block are parsed under
\* their own selectors.
C27_MediaBlockNotInlined ==
    (pass = "first" /\ pc \notin {"start", "failed"}) =>
        /\ HasPrefix(extractCSS(htmlContent), RuleMediaOfTwo) =>
              \A i \in DOMAIN doc :
                  doc[i].tag # StyleTag =>
                      /\ ~Contains(doc[i].style, <<"r","e","d">>)
                      /\ ~Contains(doc[i].style, <<"b","l","u","e">>)
        /\ \A i \in DOMAIN stylesheet :
              stylesheet[i].Selector \in
                  { <<"*">>, <<"p">>, <<"d","i","v">>,
                    <<"@","m","e","d","i","a"," ","(","m","a","x","-","w","i","d","t","h",":","6","0","0","p","x",")">> }

\* the selector is of a kind that is preserved under the two flags
PreservedKind(selector, media, pseudo) ==
    \/ media /\ selector = <<"@","m","e","d","i","a"," ","p","r","i","n","t">>
    \/ pseudo /\ selector \in { <<"a",":","h","o","v","e","r">>,
                                <<"p",":",":","b","e","f","o","r","e">> }
    \/ selector = <<"@","f","o","n","t","-","f","a","c","e">>

\* the text of the rules of preserved kind, in source order
RECURSIVE PreservedText(_, _, _, _)
PreservedText(selectors, media, pseudo, i) ==
    IF i > Len(selectors) THEN <<>>
    ELSE IF ~PreservedKind(selectors[i], media, pseudo)
    THEN PreservedText(selectors, media, pseudo, i + 1)
    ELSE selectors[i] \o <<" ","{","\n"," "," ","c","o","l","o","r",":"," ","r","e","d",";","\n","}">>
           \o (IF \E j \in (i + 1)..Len(selectors) : PreservedKind(selectors[j], media, pseudo)
               THEN <<"\n">> ELSE <<>>)
           \o PreservedText(selectors, media, pseudo, i + 1)

\* C28: the preserved CSS text is made of exactly the rules, in source
\* order, whose selector has @media while PreserveMediaQueries is set, or a
\* pseudo selector while PreservePseudoSelectors is set, or an at-rule that
\* cannot be inlined; no other rule is in it.
C28_PreservedRulesSelected ==
    (call.op = "buildPreservedCSS" /\ call.stage = "returned") =>
        call.preservedCSS =
            PreservedText(call.selectors, call.cfg.PreserveMediaQueries,
                          call.cfg.PreservePseudoSelectors, 1)

\* with only the pseudo selectors preserved, of  @media print, a:hover  the
\* second alone is in the text; and with no flag, of  p, @font-face
C28_Witness ==
    /\ call.op = "buildPreservedCSS"
    /\ call.stage = "returned"
    /\ \/ /\ ~call.cfg.PreserveMediaQueries
          /\ call.cfg.PreservePseudoSelectors
          /\ call.selectors = << <<"@","m","e","d","i","a"," ","p","r","i","n","t">>,
                                 <<"a",":","h","o","v","e","r">> >>
          /\ HasPrefix(call.preservedCSS, <<"a",":","h","o","v","e","r">>)
       \/ /\ ~call.cfg.PreserveMediaQueries
          /\ ~call.cfg.PreservePseudoSelectors
          /\ call.selectors = << <<"p">>, <<"@","f","o","n","t","-","f","a","c","e">> >>
          /\ HasPrefix(call.preservedCSS, <<"@","f","o","n","t","-","f","a","c","e">>)

\* the <style> tags of a document
StyleNodes(d) == SelectSeq(d, LAMBDA n : n.tag = StyleTag)

\* when Inline has returned: no <style> tag if they are removed or nothing
\* is preserved; else one, the first of the document Inline was called
\* with, its content the preserved CSS text
OneStyleTagLeft ==
    pc = "done" =>
        IF config.RemoveStyleTags \/ buildPreservedCSS(config, stylesheet) = { <<>> }
        THEN StyleNodes(result.HTML) = <<>>
        ELSE /\ Len(StyleNodes(result.HTML)) = 1
             /\ StyleNodes(result.HTML)[1].text \in buildPreservedCSS(config, stylesheet)
             /\ StyleNodes(result.HTML)[1].text # <<>>
             /\ StyleNodes(result.HTML)[1]
                   = [StyleNodes(htmlContent)[1] EXCEPT !.text = StyleNodes(result.HTML)[1].text]

\* the <style> tags change in no step before the last element is processed
StyleTagsChangedLast ==
    StyleNodes(doc') # StyleNodes(doc) => (pc = "process" /\ idx > Len(doc))

\* C29: after a successful Inline the document has at most one <style> tag:
\* none when RemoveStyleTags is set or the preserved CSS text is empty, else
\* the first of the original ones with the preserved text as its content,
\* the later ones removed; and the <style> tags are changed only when every
\* element has been processed, each against the stylesheet of the original
\* <style> tags.
C29_AtMostOneStyleTag ==
    /\ [](OneStyleTagLeft
           /\ (pc = "process" => /\ stylesheet = Parse(extractCSS(htmlContent))
                                  /\ StyleNodes(doc) = StyleNodes(htmlContent)))
    /\ [][StyleTagsChangedLast]_vars

\* Inline has returned a document with one <style> tag for one with two
C29_Witness ==
    /\ pc = "done"
    /\ pass = "first"
    /\ Len(StyleNodes(htmlContent)) = 2
    /\ Len(StyleNodes(result.HTML)) = 1
    /\ StyleNodes(result.HTML)[1].text # StyleNodes(htmlContent)[1].text

\* the tags Inline leaves alone
SkipSet ==
    { <<"h","t","m","l">>, <<"h","e","a","d">>, <<"t","i","t","l","e">>, <<"m","e","t","a">>,
      <<"l","i","n","k">>, <<"s","c","r","i","p","t">>, <<"s","t","y","l","e">>,
      <<"n","o","s","c","r","i","p","t">>, <<"b","a","s","e">> }

\* every element of the skip set has the style attribute of an element of
\* the same tag of the document Inline was called with
SkippedAsReceived ==
    \A i \in DOMAIN doc :
        ToLower(doc[i].tag) \in SkipSet =>
            \E j \in DOMAIN htmlContent :
                /\ htmlContent[j].tag = doc[i].tag
                /\ htmlContent[j].hasStyle = doc[i].hasStyle
                /\ htmlContent[j].style = doc[i].style

\* the step of the loop on an element of the skip set changes neither the
\* document nor InlinedStyles nor the warnings
SkippedStep ==
    (pc = "process" /\ idx <= Len(doc) /\ ToLower(doc[idx].tag) \in SkipSet) =>
        /\ doc' = doc
        /\ result' = result
        /\ [call |-> "SetInlineStyle", element |-> idx] \notin failed'

\* C30: Inline never changes the style attribute of an element whose tag,
\* in lower case, is html, head, title, meta, link, script, style, noscript
\* or base, whether a rule matches it or it has a style attribute, and such
\* an element adds nothing to InlinedStyles or to the warnings.
C30_SkippedElementsUntouched ==
    [](SkippedAsReceived) /\ [][SkippedStep]_vars

\* Inline has returned for <html style="color:green"> and a stylesheet whose
\* rule * matches every element: styles were written, not those of <html>
C30_Witness ==
    /\ pc = "done"
    /\ pass = "first"
    /\ htmlContent[1].hasStyle
    /\ HasPrefix(extractCSS(htmlContent), <<"*">>)
    /\ result.InlinedStyles > 0
    /\ result.HTML[1] = htmlContent[1]

====
